---- MODULE Spec2Model ----
(***************************************************************************)
(* A model of the Legal Lens detection-and-extraction pipeline:            *)
(*   - the Chunking Summarizer of background.js (splitText,                *)
(*     summarizeChunksRecursively),                                        *)
(*   - the Retry Messenger (sendMessageWithRetry) of the content script    *)
(*     and of the popup script,                                            *)
(*   - the Popup Detector and the Extraction Orchestrator of               *)
(*     contentScript.js, with its Link Scorer (detectTosLinks) and its     *)
(*     Document Verifier (verifyTosDocument),                              *)
(*   - the requests one page context starts (handleExplainClick,           *)
(*     handleMessage),                                                     *)
(*   - the SAVE_TOS handler of background.js (handleSaveRequest),          *)
(*   - the SIMPLIFY_TOS and EXTRACT_TEXT handlers of background.js         *)
(*     (handleSimplifyRequest, handleTextExtraction).                      *)
(* Each component has its own specification over the shared variables.     *)
(***************************************************************************)
EXTENDS Integers, Sequences, FiniteSets, TLC

VARIABLES
    \* Chunking Summarizer (background.js, summarizeLocally)
    inputText,      \* the text of the current recursion level
    depth,          \* the depth argument of summarizeChunksRecursively
    sumPc,          \* position in summarizeChunksRecursively / splitText
    start,          \* splitText: let start
    end,            \* splitText: let end
    chunks,         \* splitText: const chunks (first MaxChunks entries kept)
    partials,       \* number of chunks summarized at this level
    modelCalls,     \* number of model.summarize calls of this request
    result,         \* value returned by the outermost call
    availability,   \* summarizeLocally: const availability
    directOutput,   \* length of the value the direct summarize call gave
    artifact,       \* value returned by summarizeLocally
    summarizer,     \* the session Summarizer.create gave: "none", "open"
                    \* or "destroyed"
    progressCheckInterval,  \* the poll timer of the download branch:
                    \* "null", "set" or "cleared"
    \* Retry Messenger (sendMessageWithRetry)
    caller,         \* which script runs the call: "content" or "popup"
    retryPc,        \* position in sendMessageWithRetry
    attempt,        \* the loop variable attempt
    channelLog,     \* outcome of every chrome.runtime.sendMessage so far
    waits,          \* the delays passed to setTimeout, in order
    retryResult,    \* how the call ended
    \* The page and the content script (contentScript.js)
    attached,           \* element -> it is a child of its parent node
    hidden,             \* element -> its style attribute sets display:none
    mutationQueue,      \* mutation records not yet delivered to the observer
    detectedElements,   \* const detectedElements (a Set, in insertion order)
    currentTosElement,  \* let currentTosElement
    fabButton,          \* let fabButton: "null", or the button "attached"
                        \* to or "detached" from document.body
    fabCount,           \* explain buttons present in document.body
    pageLinks,          \* findAndFetchTosDocument: const tosLinks
    exPc,               \* position in extractTosTextFromPage
    exIndex,            \* findAndFetchTosDocument: index of the link tried
    fetchLog,           \* every candidate fetched so far, with its outcome
    exResult,           \* value returned by extractTosTextFromPage
    \* chrome.storage.local and the SAVE_TOS handler (background.js)
    storedTos,          \* tab -> storage holds an entry tos_<tab>
    saved_tos_list,     \* the stored array saved_tos_list
    saveReq,            \* request -> state of its handleSaveRequest call
    \* Requests in flight in one page context (contentScript.js)
    fabDisabled,        \* fabButton.disabled
    explainPending,     \* handleExplainClick calls awaiting their response
    extractPending,     \* EXTRACT_TOS_TEXT messages not yet answered
    resultOverlay,      \* the .legal-lens-result element of document.body:
                        \* "none", or what its message is: "legal" when
                        \* the text holds a keyword, else "plain"
    \* Link Scorer (contentScript.js, detectTosLinks)
    allLinks,           \* the a[href] elements of the document, in order
    links,              \* the array detectTosLinks returns
    linkPc,             \* "scan" before the call, "done" after it
    \* Document Verifier (contentScript.js, verifyTosDocument)
    document,           \* the fetched document handed to verifyTosDocument
    verification,       \* the value verifyTosDocument returns
    verifyPc,           \* "verify" before the call, "done" after it
    \* SIMPLIFY_TOS and EXTRACT_TEXT handlers (background.js)
    bgMessage,          \* the message the handler was called with
    bgPc,               \* position in the handler
    extraction,         \* how extractTosTextFromPage of the tab ended
    csReply,            \* what the chrome.tabs.sendMessage callback received
    bgResponse,         \* the value passed to sendResponse
    summarizeCalls,     \* summarizeLocally calls of this request
    storageWrites,      \* chrome.storage.local.set calls of this request
    bgServed            \* requests received so far

sumVars ==
    <<inputText, depth, sumPc, start, end, chunks, partials, modelCalls, result,
      availability, directOutput, artifact, summarizer,
      progressCheckInterval>>

retryVars == <<caller, retryPc, attempt, channelLog, waits, retryResult>>

pageVars ==
    <<attached, hidden, mutationQueue, detectedElements, currentTosElement,
      fabButton, fabCount, pageLinks, exPc, exIndex, fetchLog, exResult>>

saveVars == <<storedTos, saved_tos_list, saveReq>>

flightVars == <<fabDisabled, explainPending, extractPending, resultOverlay>>

linkVars == <<allLinks, links, linkPc>>

verifyVars == <<document, verification, verifyPc>>

bgVars ==
    <<bgMessage, bgPc, extraction, csReply, bgResponse, summarizeCalls,
      storageWrites, bgServed>>

vars ==
    <<sumVars, retryVars, pageVars, saveVars, flightVars, linkVars, verifyVars,
      bgVars>>

\* What each component leaves alone.
SumFrame ==
    UNCHANGED <<retryVars, pageVars, saveVars, flightVars, linkVars, verifyVars,
                bgVars>>
RetryFrame ==
    UNCHANGED <<sumVars, pageVars, saveVars, flightVars, linkVars,
                verifyVars, bgVars>>
PageFrame ==
    UNCHANGED <<sumVars, retryVars, saveVars, flightVars, linkVars,
                verifyVars, bgVars>>
SaveFrame ==
    UNCHANGED <<sumVars, retryVars, pageVars, flightVars, linkVars,
                verifyVars, bgVars>>
FlightFrame ==
    UNCHANGED <<sumVars, retryVars, saveVars, linkVars, verifyVars, bgVars,
                attached,
                hidden,
                pageLinks, exPc, exIndex, fetchLog, exResult>>
LinkFrame ==
    UNCHANGED <<sumVars, retryVars, pageVars, saveVars, flightVars,
                verifyVars, bgVars>>
VerifyFrame ==
    UNCHANGED <<sumVars, retryVars, pageVars, saveVars, flightVars, linkVars,
                bgVars>>
BgFrame ==
    UNCHANGED <<sumVars, retryVars, pageVars, saveVars, flightVars, linkVars,
                verifyVars>>

\* Bound of the number of requests started in one page context.
MaxRequests == 2

\* Bound of the number of SAVE_TOS requests.
MaxSaves == 2

\* The SAVE_TOS requests and the tabs they name.
SaveRequests == 1..MaxSaves
Tabs == {"t1", "t2"}
NoSave == [pc |-> "idle", tab |-> "none", list |-> <<>>, response |-> "none"]

\* The elements the page inserts and removes, and those it restyles.
PageElems == {"wrap", "p1", "p2", "p3"}
StyledElems == {"wrap", "p1"}

\* The state of a component that is not running.
NoResult == [kind |-> "none", len |-> 0]
NoArtifact == [status |-> "pending", summary |-> "none"]
NoRetryResult == [kind |-> "pending", value |-> <<>>]

SumIdle ==
    /\ inputText = [len |-> 0, periods |-> {}]
    /\ depth = 0
    /\ sumPc = "done"
    /\ start = 0
    /\ end = 0
    /\ chunks = <<>>
    /\ partials = 0
    /\ modelCalls = 0
    /\ result = NoResult
    /\ availability = "available"
    /\ directOutput = 0
    /\ artifact = NoArtifact
    /\ summarizer = "none"
    /\ progressCheckInterval = "null"

RetryIdle ==
    /\ caller = "content"
    /\ retryPc = "done"
    /\ attempt = 0
    /\ channelLog = <<>>
    /\ waits = <<>>
    /\ retryResult = NoRetryResult


PageIdle ==
    /\ attached = [e \in PageElems |-> FALSE]
    /\ hidden = [e \in StyledElems |-> FALSE]
    /\ mutationQueue = <<>>
    /\ detectedElements = <<>>
    /\ currentTosElement = "null"
    /\ fabButton = "null"
    /\ fabCount = 0
    /\ pageLinks = <<>>
    /\ exPc = "done"
    /\ exIndex = 0
    /\ fetchLog = <<>>
    /\ exResult = [source |-> "pending", elem |-> "null"]

SaveIdle ==
    /\ storedTos = [t \in Tabs |-> FALSE]
    /\ saved_tos_list = <<>>
    /\ saveReq = [r \in SaveRequests |-> NoSave]

FlightIdle ==
    /\ fabDisabled = FALSE
    /\ explainPending = 0
    /\ extractPending = 0
    /\ resultOverlay = "none"

LinkIdle ==
    /\ allLinks = <<>>
    /\ links = <<>>
    /\ linkPc = "done"

VerifyIdle ==
    /\ document = [parsed |-> FALSE, len |-> 0, terms |-> {}]
    /\ verification = [isToS |-> FALSE, confidence |-> 0, text |-> 0]
    /\ verifyPc = "done"

\* No message, no extraction, no reply and no response yet.
NoBgMessage == [type |-> "none", tabId |-> FALSE, text |-> "missing"]
NoExtractionOutcome ==
    [settled |-> "pending", text |-> "missing", source |-> "missing",
     caught |-> FALSE]
NoReply ==
    [lastError |-> FALSE, received |-> FALSE, success |-> FALSE,
     text |-> "missing", source |-> "missing"]
NoBgResponse ==
    [sent |-> FALSE, success |-> FALSE, error |-> "none", source |-> "missing",
     status |-> "none"]

BgIdle ==
    /\ bgMessage = NoBgMessage
    /\ bgPc = "idle"
    /\ extraction = NoExtractionOutcome
    /\ csReply = NoReply
    /\ bgResponse = NoBgResponse
    /\ summarizeCalls = 0
    /\ storageWrites = 0
    /\ bgServed = 0

Max(a, b) == IF a >= b THEN a ELSE b
Min(a, b) == IF a <= b THEN a ELSE b

(***************************************************************************)
(* Chunking Summarizer                                                     *)
(***************************************************************************)

\* background.js: const quotaTokens = 3000
quotaTokens == 3000
\* background.js: const MAX_LENGTH = Math.max(1000, Math.floor(quotaTokens * 3))
MAX_LENGTH == Max(1000, quotaTokens * 3)
\* background.js: const OVERLAP = 200
OVERLAP == 200
\* background.js: const MAX_DEPTH = 8
MAX_DEPTH == 8

\* Bounds of the texts the model draws.
MaxWindows == 2
MaxPeriods == 2
MaxChunks == 6

\* A text is modelled by its length and the set of offsets of its '.'
\* characters; every other character is a non-blank, non-'.' character.
TextLens == {a * MAX_LENGTH + c : a \in 0..(MaxWindows + 1), c \in {0, 1}}

PeriodOffsets ==
    {p \in {a * MAX_LENGTH + b * OVERLAP + c :
                a \in 0..MaxWindows, b \in {-1, 0, 1}, c \in {0, 1}} : p >= 0}

SmallSubsets(S, n) == {T \in SUBSET S : Cardinality(T) <= n}

Texts ==
    {[len |-> l, periods |-> P] :
        l \in TextLens, P \in SmallSubsets(PeriodOffsets, MaxPeriods)}

ValidText(t) == \A p \in t.periods : p < t.len

\* The texts a level's joined partial summaries may form (model output).
CombinedTexts ==
    {t \in [len : {0, 1, MAX_LENGTH, MAX_LENGTH + 1, 2 * MAX_LENGTH},
            periods : SmallSubsets({1, MAX_LENGTH}, 1)] : ValidText(t)}

\* String.prototype.lastIndexOf(".", fromIndex): the greatest offset of a
\* '.' that is <= fromIndex, or -1.
lastIndexOf(t, fromIndex) ==
    LET hits == {p \in t.periods : p <= fromIndex}
    IN  IF hits = {} THEN -1 ELSE CHOOSE p \in hits : \A q \in hits : q <= p

\* splitText: the end offset of the chunk that starts at s.
chunkEnd(t, s, maxLength) ==
    LET rawEnd == s + maxLength
    IN  IF rawEnd < t.len
        THEN LET boundary == lastIndexOf(t, rawEnd)
             IN  IF boundary > s THEN boundary + 1 ELSE rawEnd
        ELSE t.len

\* A variant that starts the next chunk after the previous one, leaving
\* one character out.
nextStartGap(e, overlap) == e + 1

\* splitText: start = Math.max(0, end - overlap)
nextStart(e, overlap) == Max(0, e - overlap)

\* chunks.push(chunk); the model keeps the first MaxChunks entries.
pushChunk(cs, c) == IF Len(cs) < MaxChunks THEN Append(cs, c) ELSE cs

\* The values Summarizer.availability() resolves to; "absent" stands for a
\* browser whose global scope has no Summarizer.
Availabilities == {"available", "downloadable", "unavailable", "absent"}

\* A variant that tests the reported availability only.
isUnavailableReported(a) == a = "unavailable"

\* summarizeLocally: !("Summarizer" in self), or
\* availability === "unavailable".
isUnavailable(a) == a \in {"absent", "unavailable"}

\* summarizeLocally: const needsDownload
needsDownload(a) == a \in {"after-download", "downloadable", "downloading"}

\* summarizeLocally: the value returned with the summary of the text.
summaryArtifact(a) ==
    [status |-> IF needsDownload(a) THEN "downloaded-and-ready" ELSE "readily",
     summary |-> "model-output"]

\* A variant whose catch blocks all answer with status error.
errorArtifactUniform(a) ==
    [status |-> "error", summary |-> "cause"]

\* summarizeLocally: the value returned by the catch block that handles a
\* rejected model call; its summary is a notice that ends with the
\* error's message.
errorArtifact(a) ==
    [status |-> IF needsDownload(a) THEN "download-error" ELSE "error",
     summary |-> "cause"]

\* A variant that also splits a text of exactly MAX_LENGTH characters.
fitsOneCallStrict(t) == t.len < MAX_LENGTH

\* summarizeChunksRecursively: if (inputText.length <= MAX_LENGTH)
fitsOneCall(t) == t.len <= MAX_LENGTH

\* summarizer.destroy()
destroy(session) == IF session = "open" THEN "destroyed" ELSE session

\* clearInterval(progressCheckInterval), called when it is not null.
clearInterval(timer) == IF timer = "set" THEN "cleared" ELSE timer

\* What becomes of the session when a model call rejects: the ready
\* branch destroys it in its finally block; the catch block of the
\* download branch returns without a call of destroy.
destroyOnFailure(a, session) ==
    IF needsDownload(a) THEN session ELSE destroy(session)

\* The browser calls monitor(m) of the create options of the download
\* branch: setInterval(..., 5000) is assigned to progressCheckInterval.
SumMonitor ==
    /\ sumPc = "create"
    /\ needsDownload(availability)
    /\ progressCheckInterval = "null"
    /\ progressCheckInterval' = "set"
    /\ UNCHANGED <<inputText, depth, sumPc, start, end, chunks, partials,
                   modelCalls, result, availability, directOutput, artifact,
                   summarizer>>
    /\ SumFrame

\* summarizeLocally: the two early returns with status unavailable.
SumUnavailable ==
    /\ sumPc = "create"
    /\ isUnavailable(availability)
    /\ artifact' = [status |-> "unavailable", summary |-> "notice"]
    /\ sumPc' = "done"
    /\ UNCHANGED <<inputText, depth, start, end, chunks, partials, modelCalls,
                   result, availability, directOutput,
                   summarizer, progressCheckInterval>>
    /\ SumFrame

\* await self.Summarizer.create(...) resolves (after the download, where
\* one is needed) and summarizeChunksRecursively(summarizer, text) is called.
SumCreateReturn ==
    /\ sumPc = "create"
    /\ ~isUnavailable(availability)
    /\ sumPc' = "enter"
    /\ UNCHANGED <<inputText, depth, start, end, chunks, partials, modelCalls,
                   result, availability, directOutput, artifact>>
    /\ summarizer' = "open"
    /\ progressCheckInterval' = clearInterval(progressCheckInterval)
    /\ SumFrame

\* summarizeChunksRecursively: entry of a call (depth cap, direct case,
\* or call of splitText).
SumEnter ==
    /\ sumPc = "enter"
    /\ IF depth > MAX_DEPTH
       THEN /\ result' = [kind |-> "truncated",
                          len |-> Min(inputText.len, MAX_LENGTH)]
            /\ artifact' = summaryArtifact(availability)
            /\ sumPc' = "done"
            /\ UNCHANGED <<start, end, chunks>>
       ELSE IF fitsOneCall(inputText)
       THEN /\ sumPc' = "direct"
            /\ UNCHANGED <<result, artifact, start, end, chunks>>
       ELSE /\ sumPc' = "split"
            /\ start' = 0
            /\ end' = 0
            /\ chunks' = <<>>
            /\ UNCHANGED <<result, artifact>>
    /\ UNCHANGED <<inputText, depth, partials, modelCalls, availability,
                   directOutput>>
    /\ summarizer' = IF depth > MAX_DEPTH THEN destroy(summarizer)
                     ELSE summarizer
    /\ UNCHANGED progressCheckInterval
    /\ SumFrame

\* await model.summarize(inputText, {context}) of the direct case returns.
SumDirectReturn ==
    /\ sumPc = "direct"
    /\ \E n \in {0, 1, MAX_LENGTH + 1} :
          /\ directOutput' = n
          /\ result' = [kind |-> "summary", len |-> n]
    /\ modelCalls' = modelCalls + 1
    /\ artifact' = summaryArtifact(availability)
    /\ sumPc' = "done"
    /\ UNCHANGED <<inputText, depth, start, end, chunks, partials, availability>>
    /\ summarizer' = destroy(summarizer)
    /\ UNCHANGED progressCheckInterval
    /\ SumFrame

\* splitText, first half of a loop iteration: the test start < textLen,
\* the computation of end and chunks.push of the trimmed slice.
SplitChunk ==
    /\ sumPc = "split"
    /\ IF start < inputText.len
       THEN /\ end' = chunkEnd(inputText, start, MAX_LENGTH)
            /\ chunks' = IF end' > start
                         THEN pushChunk(chunks, [from |-> start, to |-> end'])
                         ELSE chunks
            /\ sumPc' = "advance"
       ELSE /\ sumPc' = "summarize"
            /\ UNCHANGED <<end, chunks>>
    /\ partials' = 0
    /\ UNCHANGED <<inputText, depth, start, modelCalls, result, availability,
                   directOutput,
                   artifact,
                   summarizer, progressCheckInterval>>
    /\ SumFrame

\* splitText, second half of a loop iteration: if (end >= textLen) break;
\* start = Math.max(0, end - overlap).
SplitAdvance ==
    /\ sumPc = "advance"
    /\ IF end >= inputText.len
       THEN /\ sumPc' = "summarize"
            /\ UNCHANGED start
       ELSE /\ start' = nextStart(end, OVERLAP)
            /\ sumPc' = "split"
    /\ UNCHANGED <<inputText, depth, end, chunks, partials, modelCalls, result,
                   availability, directOutput, artifact,
                   summarizer, progressCheckInterval>>
    /\ SumFrame

\* await model.summarize(chunk) returns for the next chunk, in order.
SumChunkReturn ==
    /\ sumPc = "summarize"
    /\ partials < Len(chunks)
    /\ partials' = partials + 1
    /\ modelCalls' = modelCalls + 1
    /\ UNCHANGED <<inputText, depth, sumPc, start, end, chunks, result,
                   availability, directOutput, artifact,
                   summarizer, progressCheckInterval>>
    /\ SumFrame

\* partials.join("\n") and the recursive call with depth + 1.
SumRecurse ==
    /\ sumPc = "summarize"
    /\ partials = Len(chunks)
    /\ \E t \in CombinedTexts :
          /\ t.len >= Len(chunks) - 1
          /\ inputText' = t
    /\ depth' = depth + 1
    /\ sumPc' = "enter"
    /\ partials' = 0
    /\ UNCHANGED <<start, end, chunks, modelCalls, result, availability,
                   directOutput,
                   artifact,
                   summarizer, progressCheckInterval>>
    /\ SumFrame

\* A model call (Summarizer.create or model.summarize) rejects: the
\* rejection propagates to the catch block of summarizeLocally that
\* encloses the call.
SumModelFails ==
    /\ \/ sumPc = "create" /\ ~isUnavailable(availability)
       \/ sumPc = "direct"
       \/ sumPc = "summarize" /\ partials < Len(chunks)
    /\ sumPc' = "error"
    /\ result' = [kind |-> "error", len |-> 0]
    /\ artifact' = errorArtifact(availability)
    /\ UNCHANGED <<inputText, depth, start, end, chunks, partials, modelCalls,
                   availability, directOutput>>
    /\ summarizer' = destroyOnFailure(availability, summarizer)
    /\ UNCHANGED progressCheckInterval
    /\ SumFrame

SumInit ==
    /\ inputText \in {t \in Texts : ValidText(t)}
    /\ depth = 0
    /\ sumPc = "create"
    /\ availability \in Availabilities
    /\ directOutput = 0
    /\ artifact = NoArtifact
    /\ summarizer = "none"
    /\ progressCheckInterval = "null"
    /\ start = 0
    /\ end = 0
    /\ chunks = <<>>
    /\ partials = 0
    /\ modelCalls = 0
    /\ result = NoResult
    /\ RetryIdle
    /\ PageIdle
    /\ SaveIdle
    /\ FlightIdle
    /\ LinkIdle
    /\ VerifyIdle
    /\ BgIdle

SumNext ==
    \/ SumUnavailable
    \/ SumMonitor
    \/ SumCreateReturn
    \/ SumEnter
    \/ SumDirectReturn
    \/ SplitChunk
    \/ SplitAdvance
    \/ SumChunkReturn
    \/ SumRecurse
    \/ SumModelFails

SumSpec == SumInit /\ [][SumNext]_vars

\* The event loop keeps running the request while a step is possible
\* (every model call is assumed to settle).
SumFairSpec == SumSpec /\ WF_vars(SumNext)

(***************************************************************************)
(* Retry Messenger                                                         *)
(***************************************************************************)

\* sendMessageWithRetry(message, maxRetries = 3)
maxRetries == 3

\* An error message is modelled as its sequence of words.
MsgContextInvalidated == <<"Extension", "context", "invalidated", ".">>
MsgPortClosed ==
    <<"The", "message", "port", "closed", "before", "a", "response", "was",
      "received", ".">>
MsgNoReceiver ==
    <<"Could", "not", "establish", "connection", ".", "Receiving", "end",
      "does", "not", "exist", ".">>
MsgQuota == <<"QUOTA_BYTES", "quota", "exceeded">>
MsgInvalidatedOnly == <<"context", "invalidated">>

ErrorMessages ==
    {MsgContextInvalidated, MsgPortClosed, MsgNoReceiver, MsgQuota,
     MsgInvalidatedOnly}

\* The responses the background may deliver.
Responses == {"success-response", "failure-response"}

\* String.prototype.includes, on word sequences.
includes(msg, part) ==
    \E i \in 1..(Len(msg) - Len(part) + 1) :
        \A j \in 1..Len(part) : msg[i + j - 1] = part[j]

\* A variant with looser patterns, which also match a missing receiver.
isServiceWorkerErrorLoose(msg) ==
    \/ includes(msg, <<"context">>)
    \/ includes(msg, <<"port">>)
    \/ includes(msg, <<"connection">>)

\* const isServiceWorkerError = ...
isServiceWorkerError(msg) ==
    \/ includes(msg, <<"context", "invalidated">>)
    \/ includes(msg, <<"Extension", "context">>)
    \/ includes(msg, <<"message", "port">>)

\* A variant that is off by one.
isLastAttemptLate(a) == a = maxRetries

\* const isLastAttempt = attempt === maxRetries - 1
isLastAttempt(a) == a = maxRetries - 1

\* A variant without the exponential growth.
backoffDelayFlat(a) == 200

\* 200 * Math.pow(2, attempt)
backoffDelay(a) == 200 * 2 ^ a

\* for (...; attempt < maxRetries; ...) and chrome.runtime.sendMessage(...)
RetrySend ==
    /\ retryPc = "send"
    /\ IF attempt < maxRetries
       THEN /\ retryPc' = "await"
            /\ UNCHANGED retryResult
       ELSE /\ retryPc' = "done"
            /\ retryResult' = [kind |-> "undefined", value |-> <<>>]
    /\ UNCHANGED <<caller, attempt, channelLog, waits>>
    /\ RetryFrame

\* The callback runs without chrome.runtime.lastError: resolve(response);
\* the content script hands the response to handleSummarizeResponse, the
\* popup returns it.
RetryResolve ==
    /\ retryPc = "await"
    /\ \E r \in Responses :
          /\ channelLog' = Append(channelLog, <<"ok", r>>)
          /\ retryResult' = [kind |-> "success", value |-> <<r>>]
    /\ retryPc' = "done"
    /\ UNCHANGED <<caller, attempt, waits>>
    /\ RetryFrame

\* The callback runs with chrome.runtime.lastError: reject(new Error(...))
\* and the catch block.
RetryReject ==
    /\ retryPc = "await"
    /\ \E m \in ErrorMessages :
          /\ channelLog' = Append(channelLog, <<"error", m>>)
          /\ IF isServiceWorkerError(m) /\ ~isLastAttempt(attempt)
             THEN /\ waits' = Append(waits, backoffDelay(attempt))
                  /\ retryPc' = "wait"
                  /\ UNCHANGED retryResult
             ELSE /\ retryResult' = [kind |-> "failure", value |-> m]
                  /\ retryPc' = "done"
                  /\ UNCHANGED waits
    /\ UNCHANGED <<caller, attempt>>
    /\ RetryFrame

\* The setTimeout of the backoff fires: continue with attempt++.
RetryTimer ==
    /\ retryPc = "wait"
    /\ attempt' = attempt + 1
    /\ retryPc' = "send"
    /\ UNCHANGED <<caller, channelLog, waits, retryResult>>
    /\ RetryFrame

RetryInit ==
    /\ caller \in {"content", "popup"}
    /\ retryPc = "send"
    /\ attempt = 0
    /\ channelLog = <<>>
    /\ waits = <<>>
    /\ retryResult = NoRetryResult
    /\ SumIdle
    /\ PageIdle
    /\ SaveIdle
    /\ FlightIdle
    /\ LinkIdle
    /\ VerifyIdle
    /\ BgIdle

RetryNext ==
    \/ RetrySend
    \/ RetryResolve
    \/ RetryReject
    \/ RetryTimer

RetrySpec == RetryInit /\ [][RetryNext]_vars

(***************************************************************************)
(* The page: DOM elements, selectors and text                              *)
(***************************************************************************)

\* DETECTION_CONFIG.minTextLength
minTextLength == 50

\* Bounds of the page's activity.
MaxBatch == 2
MaxLinks == 2

\* The markup of the modelled page. class and id hold the fragments of the
\* attribute that selectors and indicators look for; ownText and ownScript
\* are the lengths of the element's own text and of its own script/style
\* text; ownKw says whether its own text holds a DETECTION_CONFIG keyword.
\*   <body>
\*     <div class="wrapper"> 40 characters
\*        <div class="modal" style="z-index:2000"> "I agree ..." 30 chars
\*     <div class="cookie-notice" role="dialog"> "... cookie policy" 600
\*     <div class="ad-banner">
\*        <div class="popup"> "... terms of service ..." 600 characters
\*     <button class="legal-lens-explain-btn"><img></button>
\*     <div class="legal-lens-result" style="z-index: 999999">
\*        <button>x</button><div>message</div>   (showResult)
ElementMarkup ==
    [wrap  |-> [parent |-> "body", class |-> {}, id |-> {}, role |-> "none",
                zIndex |-> 0, ownKw |-> FALSE, ownText |-> 40, ownScript |-> 0],
     p1    |-> [parent |-> "wrap", class |-> {"modal"}, id |-> {},
                role |-> "none", zIndex |-> 2000, ownKw |-> TRUE,
                ownText |-> 30, ownScript |-> 0],
     p2    |-> [parent |-> "body", class |-> {"cookie"}, id |-> {},
                role |-> "dialog", zIndex |-> 0, ownKw |-> TRUE,
                ownText |-> 600, ownScript |-> 0],
     adbox |-> [parent |-> "body", class |-> {"ad-", "banner"}, id |-> {},
                role |-> "none", zIndex |-> 0, ownKw |-> FALSE,
                ownText |-> 0, ownScript |-> 0],
     p3    |-> [parent |-> "adbox", class |-> {"popup"}, id |-> {},
                role |-> "none", zIndex |-> 0, ownKw |-> TRUE,
                ownText |-> 600, ownScript |-> 0],
     fab   |-> [parent |-> "body", class |-> {}, id |-> {}, role |-> "button",
                zIndex |-> 999999, ownKw |-> FALSE, ownText |-> 0,
                ownScript |-> 0],
     result |-> [parent |-> "body", class |-> {}, id |-> {}, role |-> "none",
                zIndex |-> 999999, ownKw |-> FALSE, ownText |-> 64,
                ownScript |-> 0]]

AllElems == DOMAIN ElementMarkup

\* Document order of the elements.
DocOrder == <<"wrap", "p1", "p2", "adbox", "p3", "fab", "result">>

\* DETECTION_CONFIG.commonSelectors
commonSelectors ==
    <<[attr |-> "class", frag |-> "modal"], [attr |-> "class", frag |-> "popup"],
      [attr |-> "class", frag |-> "overlay"], [attr |-> "id", frag |-> "modal"],
      [attr |-> "id", frag |-> "popup"], [attr |-> "id", frag |-> "overlay"],
      [attr |-> "class", frag |-> "tos"], [attr |-> "class", frag |-> "privacy"],
      [attr |-> "class", frag |-> "cookie"], [attr |-> "role", frag |-> "dialog"]>>

\* DETECTION_CONFIG.excludeSelectors
excludeSelectors ==
    <<[attr |-> "class", frag |-> "ad-"],
      [attr |-> "class", frag |-> "advertisement"],
      [attr |-> "id", frag |-> "ad-"], [attr |-> "id", frag |-> "advertisement"],
      [attr |-> "class", frag |-> "video-ad"],
      [attr |-> "class", frag |-> "promo"], [attr |-> "class", frag |-> "banner"],
      [attr |-> "class", frag |-> "ytp-ad-overlay-container"],
      [attr |-> "class", frag |-> "video-ads"]>>

\* isModalLike: const modalIndicators
modalIndicators == {"modal", "popup", "overlay", "dialog", "drawer"}

\* Element.matches(selector)
matches(e, sel) ==
    IF sel.attr = "role"
    THEN ElementMarkup[e].role = sel.frag
    ELSE sel.frag \in ElementMarkup[e][sel.attr]

\* Whether e is a child of its parent node. f is the state of the button.
isChild(e, f) ==
    IF e \in PageElems THEN attached[e]
    ELSE IF e = "fab" THEN f = "attached"
    ELSE IF e = "result" THEN resultOverlay # "none"
    ELSE TRUE

\* e and its ancestors, along the current parent links.
RECURSIVE selfAndAncestors(_, _)
selfAndAncestors(e, f) ==
    IF e = "body" \/ ~isChild(e, f) THEN {e}
    ELSE {e} \cup selfAndAncestors(ElementMarkup[e].parent, f)

\* document.body.contains(e)
inDocument(e, f) == "body" \in selfAndAncestors(e, f)

\* Node.contains: other is node or a descendant of node.
contains(node, other, f) == node \in selfAndAncestors(other, f)

\* Element.closest(selector) is not null.
closest(e, sel, f) ==
    \E a \in selfAndAncestors(e, f) \ {"body"} : matches(a, sel)

\* isElementVisible: display none on the element itself, or an empty
\* bounding box (the element is detached or inside a display:none subtree).
isElementVisible(e, f) ==
    /\ ~(e \in StyledElems /\ hidden[e])
    /\ inDocument(e, f)
    /\ \A a \in selfAndAncestors(e, f) : ~(a \in StyledElems /\ hidden[a])

\* The elements of the subtree of e.
subtree(e, f) == {x \in AllElems : isChild(x, f) /\ contains(e, x, f)} \cup {e}

RECURSIVE sumText(_, _)
sumText(S, withScripts) ==
    IF S = {} THEN 0
    ELSE LET x == CHOOSE y \in S : TRUE
         IN  ElementMarkup[x].ownText
                + (IF withScripts THEN ElementMarkup[x].ownScript ELSE 0)
                + sumText(S \ {x}, withScripts)

\* (element.textContent || "").trim().length
textContentLength(e, f) == sumText(subtree(e, f), TRUE)

\* extractTosText(element).length: the text of a clone without script,
\* style and noscript elements and without the explain button.
extractTosText(e, f) == sumText(subtree(e, f) \ {"fab"}, FALSE)

\* shouldExcludeElement
shouldExcludeElement(e, f) ==
    \E i \in 1..Len(excludeSelectors) :
        matches(e, excludeSelectors[i]) \/ closest(e, excludeSelectors[i], f)

\* isModalLike
isModalLike(e) ==
    \/ ElementMarkup[e].zIndex > 1000
    \/ \E ind \in modalIndicators :
          ind \in ElementMarkup[e].class \/ ind \in ElementMarkup[e].id

\* Whether the own text of x holds a DETECTION_CONFIG keyword; the text of
\* the result overlay is the message showResult was called with.
ownKw(x) ==
    IF x = "result" THEN resultOverlay = "legal" ELSE ElementMarkup[x].ownKw

\* checkForTosPopup: const hasKeyword
hasKeyword(e, f) == \E x \in subtree(e, f) : ownKw(x)

\* checkForTosPopup: const hasEnoughText
hasEnoughText(e, f) == textContentLength(e, f) >= minTextLength

(***************************************************************************)
(* Popup Detector                                                          *)
(***************************************************************************)

\* The detector's module state as a record; out collects the mutation
\* records its own DOM changes produce.
detectorState ==
    [detected |-> detectedElements, current |-> currentTosElement,
     fab |-> fabButton, count |-> fabCount, out |-> <<>>]

Range(seq) == {seq[i] : i \in 1..Len(seq)}

\* A variant that keeps the element tracked first.
handleTosDetectionKeepFirst(d, e) ==
    LET d1 == IF d.current = "null" THEN [d EXCEPT !.current = e] ELSE d
    IN  IF d1.fab = "attached" THEN d1
        ELSE [d1 EXCEPT !.fab = "attached", !.count = @ + 1,
                        !.out = Append(@, [type |-> "add", node |-> "fab",
                                           by |-> "extension"])]

\* A variant that injects a button on every detection.
handleTosDetectionAlwaysInject(d, e) ==
    [d EXCEPT !.current = e, !.fab = "attached", !.count = @ + 1,
              !.out = Append(@, [type |-> "add", node |-> "fab",
                                 by |-> "extension"])]

\* handleTosDetection
handleTosDetection(d, e) ==
    LET d1 == [d EXCEPT !.current = e]
    IN  IF d1.fab = "attached" THEN d1
        ELSE [d1 EXCEPT !.fab = "attached", !.count = @ + 1,
                        !.out = Append(@, [type |-> "add", node |-> "fab",
                                           by |-> "extension"])]

\* A variant that forgets the tracked element and leaves the button.
hideFabKeepButton(d) == [d EXCEPT !.current = "null"]

\* hideFab
hideFab(d) ==
    LET d1 == IF d.fab = "attached"
              THEN [d EXCEPT !.fab = "null", !.count = @ - 1,
                             !.out = Append(@, [type |-> "remove",
                                                node |-> "fab",
                                                by |-> "extension"])]
              ELSE d
    IN  [d1 EXCEPT !.current = "null"]

\* A variant without the exclusion test.
checkForTosPopupNoExclude(d, e) ==
    IF e \in Range(d.detected) THEN d
    ELSE IF ~isElementVisible(e, d.fab) THEN d
    ELSE IF hasKeyword(e, d.fab)
            /\ (isModalLike(e) \/ hasEnoughText(e, d.fab))
    THEN [handleTosDetection(d, e) EXCEPT !.detected = Append(@, e)]
    ELSE d

\* A variant in which a keyword or the structure or the length suffices.
checkForTosPopupDisjunctive(d, e) ==
    IF e \in Range(d.detected) THEN d
    ELSE IF shouldExcludeElement(e, d.fab) THEN d
    ELSE IF ~isElementVisible(e, d.fab) THEN d
    ELSE IF hasKeyword(e, d.fab)
            \/ (isModalLike(e) \/ hasEnoughText(e, d.fab))
    THEN [handleTosDetection(d, e) EXCEPT !.detected = Append(@, e)]
    ELSE d

\* checkForTosPopup
checkForTosPopup(d, e) ==
    IF e \in Range(d.detected) THEN d
    ELSE IF shouldExcludeElement(e, d.fab) THEN d
    ELSE IF ~isElementVisible(e, d.fab) THEN d
    ELSE IF hasKeyword(e, d.fab)
            /\ (isModalLike(e) \/ hasEnoughText(e, d.fab))
    THEN [handleTosDetection(d, e) EXCEPT !.detected = Append(@, e)]
    ELSE d

\* The body of the MutationObserver callback for one mutation record.
processMutation(d, m) ==
    CASE m.type = "add" -> checkForTosPopup(d, m.node)
      [] m.type = "remove" ->
            IF d.current # "null"
               /\ (m.node = d.current \/ contains(m.node, d.current, d.fab))
            THEN hideFab(d) ELSE d
      [] m.type = "attr" ->
            LET d1 == checkForTosPopup(d, m.node)
            IN  IF d1.current = m.node /\ ~isElementVisible(m.node, d1.fab)
                THEN hideFab(d1) ELSE d1

\* for (const mutation of mutations) ...
RECURSIVE processBatch(_, _)
processBatch(d, ms) ==
    IF ms = <<>> THEN d
    ELSE processBatch(processMutation(d, Head(ms)), Tail(ms))

\* document.querySelectorAll(selector), in document order.
querySelectorAll(sel, f) ==
    SelectSeq(DocOrder, LAMBDA e : inDocument(e, f) /\ matches(e, sel))

\* detectExistingTosPopups
RECURSIVE sweepElements(_, _)
sweepElements(d, es) ==
    IF es = <<>> THEN d
    ELSE sweepElements(checkForTosPopup(d, Head(es)), Tail(es))

RECURSIVE detectExistingTosPopups(_, _)
detectExistingTosPopups(d, i) ==
    IF i > Len(commonSelectors) THEN d
    ELSE detectExistingTosPopups(
             sweepElements(d, querySelectorAll(commonSelectors[i], d.fab)),
             i + 1)

\* Page scripts run as tasks; the records of the extension's own DOM
\* changes are delivered to the observer before the next task starts.
\* The model follows the page until the extraction request has returned.
PageMayAct ==
    /\ exPc # "done"
    /\ Len(mutationQueue) < MaxBatch
    /\ \A i \in 1..Len(mutationQueue) : mutationQueue[i].by = "page"

\* The page inserts a detached element at its place.
PageAdd ==
    /\ PageMayAct
    /\ \E e \in PageElems :
          /\ ~attached[e]
          /\ inDocument(ElementMarkup[e].parent, fabButton)
          /\ attached' = [attached EXCEPT ![e] = TRUE]
          /\ mutationQueue' =
                Append(mutationQueue, [type |-> "add", node |-> e, by |-> "page"])
    /\ UNCHANGED <<hidden, detectedElements, currentTosElement, fabButton,
                   fabCount, pageLinks, exPc, exIndex, fetchLog, exResult>>
    /\ PageFrame

\* The page removes an element (with its subtree).
PageRemove ==
    /\ PageMayAct
    /\ \E e \in PageElems :
          /\ attached[e]
          /\ inDocument(e, fabButton)
          /\ attached' = [attached EXCEPT ![e] = FALSE]
          /\ mutationQueue' =
                Append(mutationQueue,
                       [type |-> "remove", node |-> e, by |-> "page"])
    /\ UNCHANGED <<hidden, detectedElements, currentTosElement, fabButton,
                   fabCount, pageLinks, exPc, exIndex, fetchLog, exResult>>
    /\ PageFrame

\* The page sets or clears display:none in an element's style attribute.
PageStyle ==
    /\ PageMayAct
    /\ \E e \in StyledElems :
          /\ inDocument(e, fabButton)
          /\ hidden' = [hidden EXCEPT ![e] = ~hidden[e]]
          /\ mutationQueue' =
                Append(mutationQueue, [type |-> "attr", node |-> e, by |-> "page"])
    /\ UNCHANGED <<attached, detectedElements, currentTosElement, fabButton,
                   fabCount, pageLinks, exPc, exIndex, fetchLog, exResult>>
    /\ PageFrame

\* The page removes the extension's button.
PageRemoveFab ==
    /\ PageMayAct
    /\ fabButton = "attached"
    /\ fabButton' = "detached"
    /\ fabCount' = fabCount - 1
    /\ mutationQueue' =
          Append(mutationQueue, [type |-> "remove", node |-> "fab", by |-> "page"])
    /\ UNCHANGED <<attached, hidden, detectedElements, currentTosElement,
                   pageLinks, exPc, exIndex, fetchLog, exResult>>
    /\ PageFrame

\* The MutationObserver callback runs on the pending records.
ObserverCallback ==
    /\ mutationQueue # <<>>
    /\ LET d == processBatch(detectorState, mutationQueue)
       IN  /\ detectedElements' = d.detected
           /\ currentTosElement' = d.current
           /\ fabButton' = d.fab
           /\ fabCount' = d.count
           /\ mutationQueue' = d.out
    /\ UNCHANGED <<attached, hidden, pageLinks, exPc, exIndex, fetchLog,
                   exResult>>
    /\ PageFrame

(***************************************************************************)
(* Link Scorer                                                             *)
(***************************************************************************)

\* Bound of the number of a[href] elements of a scanned document.
MaxAnchors == 2

\* DETECTION_CONFIG.linkKeywords; a string is the sequence of its words.
linkKeywords ==
    << <<"terms", "of", "service">>, <<"terms", "and", "conditions">>,
       <<"terms", "of", "use">>, <<"privacy", "policy">>,
       <<"privacy", "notice">>, <<"cookie", "policy">>, <<"legal">>,
       <<"user", "agreement">>, <<"eula">>, <<"tos">>, <<"terms">>,
       <<"privacy">> >>

\* The anchors a document may hold: trimmed lower-cased text, title and
\* aria-label, and the href, whose path segment is a run of words joined
\* by sep ("-", "_" or nothing), or which is "#", empty, or a
\* javascript: URL.
LinkTexts ==
    {<<>>, <<"terms">>, <<"terms", "of", "service">>,
     <<"our", "privacy", "policy">>}
LinkTitles == {<<>>, <<"terms", "of", "service">>}
LinkArias == {<<>>, <<"legal">>}
LinkHrefs ==
    {[kind |-> "hash", words |-> <<>>, sep |-> ""],
     [kind |-> "empty", words |-> <<>>, sep |-> ""],
     [kind |-> "javascript", words |-> <<"terms", "of", "service">>,
      sep |-> ""],
     [kind |-> "path", words |-> <<"terms", "of", "service">>, sep |-> "-"],
     [kind |-> "path", words |-> <<"privacy", "policy">>, sep |-> ""],
     [kind |-> "path", words |-> <<"user", "agreement">>, sep |-> "_"]}
Anchors ==
    [text : LinkTexts, title : LinkTitles, aria : LinkArias, href : LinkHrefs]

\* The words of s as `${...} ${s} ${...}` contributes them: an empty
\* string leaves an empty word between its two spaces.
wordsOf(s) == IF s = <<>> THEN <<"">> ELSE s

\* const combinedText = `${text} ${title} ${ariaLabel}`
combinedText(a) == wordsOf(a.text) \o wordsOf(a.title) \o wordsOf(a.aria)

\* A variant that skips the href "#" only.
skipLinkHashOnly(a) == a.href.kind = "hash"

\* if (!href || href.startsWith("javascript:") || href === "#") return
skipLink(a) == a.href.kind \in {"empty", "javascript", "hash"}

\* A variant without the break: every keyword that combinedText includes
\* may raise the confidence.
textRuleBestMatch(a) ==
    LET hits == {i \in 1..Len(linkKeywords) :
                    includes(combinedText(a), linkKeywords[i])}
        score(i) == IF a.text = linkKeywords[i] THEN 100
                    ELSE IF includes(a.text, linkKeywords[i]) THEN 80
                    ELSE 60
    IN  IF hits = {} THEN [confidence |-> 0, keyword |-> <<>>]
        ELSE [confidence |->
                  CHOOSE c \in {score(i) : i \in hits} :
                      \A i \in hits : score(i) <= c,
              keyword |-> linkKeywords[CHOOSE i \in hits :
                                           \A j \in hits : i <= j]]

\* The first loop over linkKeywords: the first keyword that combinedText
\* includes decides the confidence, then break.
textRule(a) ==
    LET hits == {i \in 1..Len(linkKeywords) :
                    includes(combinedText(a), linkKeywords[i])}
    IN  IF hits = {} THEN [confidence |-> 0, keyword |-> <<>>]
        ELSE LET k == CHOOSE i \in hits : \A j \in hits : i <= j
                 keyword == linkKeywords[k]
             IN  [confidence |->
                      IF a.text = keyword THEN 100
                      ELSE IF includes(a.text, keyword) THEN Max(0, 80)
                      ELSE Max(0, 60),
                  keyword |-> keyword]

\* urlLower.includes(keywordSlug) ||
\* urlLower.includes(keyword.replace(/\s+/g, ""))
hrefIncludes(href, keyword) ==
    /\ includes(href.words, keyword)
    /\ Len(keyword) > 1 => href.sep \in {"-", ""}

\* A variant of the URL rule that sets the confidence to 70.
urlRuleOverwrite(a, c) ==
    LET hits == {i \in 1..Len(linkKeywords) :
                    hrefIncludes(a.href, linkKeywords[i])}
    IN  IF hits = {} THEN c
        ELSE [confidence |-> 70,
              keyword |-> IF c.keyword # <<>> THEN c.keyword
                          ELSE linkKeywords[CHOOSE i \in hits :
                                               \A j \in hits : i <= j]]

\* The second loop over linkKeywords: every keyword found in the href
\* raises the confidence to at least 70.
urlRule(a, c) ==
    LET hits == {i \in 1..Len(linkKeywords) :
                    hrefIncludes(a.href, linkKeywords[i])}
    IN  IF hits = {} THEN c
        ELSE [confidence |-> Max(c.confidence, 70),
              keyword |-> IF c.keyword # <<>> THEN c.keyword
                          ELSE linkKeywords[CHOOSE i \in hits :
                                               \A j \in hits : i <= j]]

\* The confidence and keyword of one anchor.
scoreLink(a) == urlRule(a, textRule(a))

\* allLinks.forEach: the links pushed for the anchors from index i on.
RECURSIVE scanLinks(_, _)
scanLinks(as, i) ==
    IF i > Len(as) THEN <<>>
    ELSE LET c == scoreLink(as[i])
         IN  (IF ~skipLink(as[i]) /\ c.confidence > 0
              THEN <<[anchor |-> i, confidence |-> c.confidence,
                      keyword |-> c.keyword]>>
              ELSE <<>>)
             \o scanLinks(as, i + 1)

\* A variant that leaves the links in document order.
sortByConfidenceNot(ls) == ls

\* A variant that sorts by descending confidence and reverses the order of
\* links of equal confidence.
RECURSIVE sortByConfidenceUnstable(_)
sortByConfidenceUnstable(ls) ==
    IF ls = <<>> THEN <<>>
    ELSE LET rest == sortByConfidenceUnstable(Tail(ls))
             x == Head(ls)
             before == SelectSeq(rest, LAMBDA y : y.confidence >= x.confidence)
             after == SelectSeq(rest, LAMBDA y : y.confidence < x.confidence)
         IN  before \o <<x>> \o after

\* links.sort((a, b) => b.confidence - a.confidence): a stable sort,
\* highest confidence first.
RECURSIVE sortByConfidence(_)
sortByConfidence(ls) ==
    IF ls = <<>> THEN <<>>
    ELSE LET rest == sortByConfidence(Tail(ls))
             x == Head(ls)
             before == SelectSeq(rest, LAMBDA y : y.confidence > x.confidence)
             after == SelectSeq(rest, LAMBDA y : y.confidence <= x.confidence)
         IN  before \o <<x>> \o after

\* detectTosLinks
detectTosLinks(as) == sortByConfidence(scanLinks(as, 1))

\* detectTosLinks() runs on the document.
DetectLinks ==
    /\ linkPc = "scan"
    /\ links' = detectTosLinks(allLinks)
    /\ linkPc' = "done"
    /\ UNCHANGED allLinks
    /\ LinkFrame

LinkInit ==
    /\ allLinks \in UNION {[1..n -> Anchors] : n \in 1..MaxAnchors}
    /\ links = <<>>
    /\ linkPc = "scan"
    /\ SumIdle
    /\ RetryIdle
    /\ PageIdle
    /\ SaveIdle
    /\ FlightIdle
    /\ VerifyIdle
    /\ BgIdle

LinkNext == DetectLinks

LinkSpec == LinkInit /\ [][LinkNext]_vars

(***************************************************************************)
(* Document Verifier                                                       *)
(***************************************************************************)

\* DETECTION_CONFIG.minTosDocumentLength
minTosDocumentLength == 500

\* Bound of the number of legal terms a drawn document holds.
MaxTerms == 4

\* verifyTosDocument: const legalTerms
legalTerms ==
    <<"terms of service", "terms and conditions", "privacy policy",
      "agreement", "liability", "warranty", "intellectual property",
      "user conduct", "termination", "governing law", "disclaimer",
      "copyright", "license", "prohibited", "consent">>

\* A fetched document: whether DOMParser yields a content element, the
\* length of the content element's text after whitespace is collapsed and
\* trimmed, and the set of legal terms that occur in it.
DocLengths ==
    {0, minTosDocumentLength - 1, minTosDocumentLength,
     minTosDocumentLength + 1, 20 * minTosDocumentLength}
Documents ==
    {d \in [parsed : BOOLEAN, len : DocLengths,
            terms : SmallSubsets(Range(legalTerms), MaxTerms)] :
        /\ d.len = 0 => d.terms = {}
        /\ ~d.parsed => d.len = 0}

\* for (const term of legalTerms) if (textLower.includes(term))
\* keywordMatches++
RECURSIVE keywordMatches(_, _)
keywordMatches(d, i) ==
    IF i > Len(legalTerms) THEN 0
    ELSE (IF legalTerms[i] \in d.terms THEN 1 ELSE 0) + keywordMatches(d, i + 1)

\* A variant that accepts a document on its legal terms alone.
verifyTosDocumentNoLength(d) ==
    LET n == keywordMatches(d, 1)
    IN  [isToS |-> n >= 3,
         confidence |-> Min(100, (n * 100) \div Len(legalTerms)),
         text |-> IF n >= 3 THEN d.len ELSE 0]

\* verifyTosDocument; text is the length of the returned text and
\* confidence is rounded down to a whole number.
verifyTosDocument(d) ==
    IF d.len < minTosDocumentLength
    THEN [isToS |-> FALSE, confidence |-> 0, text |-> 0]
    ELSE LET n == keywordMatches(d, 1)
         IN  [isToS |-> n >= 3,
              confidence |-> Min(100, (n * 100) \div Len(legalTerms)),
              text |-> d.len]

\* verifyTosDocument(html, url) runs on a fetched document.
VerifyDocument ==
    /\ verifyPc = "verify"
    /\ verification' = verifyTosDocument(document)
    /\ verifyPc' = "done"
    /\ UNCHANGED document
    /\ VerifyFrame

VerifyInit ==
    /\ document \in Documents
    /\ verification = [isToS |-> FALSE, confidence |-> 0, text |-> 0]
    /\ verifyPc = "verify"
    /\ SumIdle
    /\ RetryIdle
    /\ PageIdle
    /\ SaveIdle
    /\ FlightIdle
    /\ LinkIdle
    /\ BgIdle

VerifyNext == VerifyDocument

VerifySpec == VerifyInit /\ [][VerifyNext]_vars

(***************************************************************************)
(* Extraction Orchestrator                                                 *)
(***************************************************************************)

NoExtraction == [source |-> "pending", elem |-> "null"]

\* A variant that takes the most recently detected element.
firstElementLatest(detected) == detected[Len(detected)]

\* const firstElement = Array.from(detectedElements)[0]
firstElement(detected) == detected[1]

\* The elements the last-resort loop visits, in order.
RECURSIVE lastResortOrder(_)
lastResortOrder(i) ==
    IF i > Len(commonSelectors) THEN <<>>
    ELSE querySelectorAll(commonSelectors[i], fabButton) \o lastResortOrder(i + 1)

\* extractTosTextFromPage, last resort: the first visible element matching
\* a common selector whose extracted text is long enough.
lastResort ==
    LET hits == SelectSeq(lastResortOrder(1),
                          LAMBDA e : /\ isElementVisible(e, fabButton)
                                     /\ extractTosText(e, fabButton)
                                            >= minTextLength)
    IN  IF hits # <<>>
        THEN [source |-> "current-page-element", elem |-> Head(hits)]
        ELSE [source |-> "none", elem |-> "null"]

\* A variant that skips the detected elements.
currentPageFallbackSkipDetected == lastResort

\* extractTosTextFromPage, STEP 2 and after.
currentPageFallback ==
    IF Len(detectedElements) > 0
       /\ extractTosText(firstElement(detectedElements), fabButton)
              >= minTextLength
    THEN [source |-> "current-page-popup",
          elem |-> firstElement(detectedElements)]
    ELSE lastResort

\* The a[href] elements of the modelled page, in document order; the
\* page shows a prefix of them when the extraction starts.  The first two
\* anchors have the same href, and so have the last two.
PageAnchors ==
    << [text |-> <<>>, title |-> <<>>, aria |-> <<>>,
        href |-> [kind |-> "path", words |-> <<"privacy", "policy">>,
                  sep |-> ""]],
       [text |-> <<"terms", "of", "service">>, title |-> <<>>, aria |-> <<>>,
        href |-> [kind |-> "path", words |-> <<"privacy", "policy">>,
                  sep |-> ""]],
       [text |-> <<>>, title |-> <<>>, aria |-> <<"legal">>,
        href |-> [kind |-> "path", words |-> <<"user", "agreement">>,
                  sep |-> "_"]],
       [text |-> <<"our", "privacy", "policy">>, title |-> <<>>,
        aria |-> <<>>,
        href |-> [kind |-> "path", words |-> <<"user", "agreement">>,
                  sep |-> "_"]] >>

\* EXTRACT_TOS_TEXT arrives: extractTosTextFromPage runs detectTosLinks
\* on the anchors the page shows and requests the first candidate, or
\* falls back at once without candidates.
ExtractStart ==
    /\ exPc = "idle"
    /\ mutationQueue = <<>>
    /\ fetchLog' = <<>>
    /\ \E n \in 0..MaxLinks :
          /\ pageLinks' = detectTosLinks(SubSeq(PageAnchors, 1, n))
          /\ IF pageLinks' = <<>>
             THEN /\ exResult' = currentPageFallback
                  /\ exPc' = "done"
                  /\ UNCHANGED exIndex
             ELSE /\ exPc' = "fetching"
                  /\ exIndex' = 1
                  /\ UNCHANGED exResult
    /\ UNCHANGED <<attached, hidden, mutationQueue, detectedElements,
                   currentTosElement, fabButton, fabCount>>
    /\ PageFrame

\* A variant in which no FETCH_TOS_PAGE request is ever answered.
FetchOutcomesNone == {}

\* The outcomes of fetchTosPage followed by verifyTosDocument for a link.
FetchOutcomes == {"fetch-failed", "not-legal", "legal"}

\* The FETCH_TOS_PAGE response for the current candidate arrives and is
\* verified; the loop returns, goes on, or ends and the fallbacks run.
FetchReturns ==
    /\ exPc = "fetching"
    /\ mutationQueue = <<>>
    /\ \E o \in FetchOutcomes :
          /\ fetchLog' = Append(fetchLog, [link |-> pageLinks[exIndex],
                                           outcome |-> o])
          /\ IF o = "legal"
             THEN /\ exResult' = [source |-> "fetched-link", elem |-> "null"]
                  /\ exPc' = "done"
                  /\ UNCHANGED exIndex
             ELSE IF exIndex < Len(pageLinks)
             THEN /\ exIndex' = exIndex + 1
                  /\ UNCHANGED <<exPc, exResult>>
             ELSE /\ exResult' = currentPageFallback
                  /\ exPc' = "done"
                  /\ UNCHANGED exIndex
    /\ UNCHANGED <<attached, hidden, mutationQueue, detectedElements,
                   currentTosElement, fabButton, fabCount, pageLinks>>
    /\ PageFrame

\* The content script has been injected: startObserver() and
\* detectExistingTosPopups() have run on the page as it is.
PageInit ==
    /\ FlightIdle
    /\ attached \in [PageElems -> BOOLEAN]
    /\ hidden \in [StyledElems -> BOOLEAN]
    /\ pageLinks = <<>>
    /\ LET d == detectExistingTosPopups(
                    [detected |-> <<>>, current |-> "null", fab |-> "null",
                     count |-> 0, out |-> <<>>], 1)
       IN  /\ detectedElements = d.detected
           /\ currentTosElement = d.current
           /\ fabButton = d.fab
           /\ fabCount = d.count
           /\ mutationQueue = d.out
    /\ exPc = "idle"
    /\ exIndex = 0
    /\ fetchLog = <<>>
    /\ exResult = NoExtraction
    /\ SumIdle
    /\ RetryIdle
    /\ SaveIdle
    /\ LinkIdle
    /\ VerifyIdle
    /\ BgIdle

PageNext ==
    \/ PageAdd
    \/ PageRemove
    \/ PageStyle
    \/ PageRemoveFab
    \/ ObserverCallback
    \/ ExtractStart
    \/ FetchReturns

PageSpec == PageInit /\ [][PageNext]_vars

\* The content script on a page whose scripts add, remove and restyle the
\* page's own elements and leave the explain button alone.
DetectNext ==
    \/ PageAdd
    \/ PageRemove
    \/ PageStyle
    \/ ObserverCallback

DetectSpec == PageInit /\ [][DetectNext]_vars

\* The extraction request on a page whose scripts, while it runs, only
\* restyle elements.
ExtractNext ==
    \/ PageStyle
    \/ ObserverCallback
    \/ ExtractStart
    \/ FetchReturns

ExtractSpec == PageInit /\ [][ExtractNext]_vars

\* The observer's callback is a microtask that runs once the current task
\* ends; the response of a FETCH_TOS_PAGE request is a task of its own,
\* which the event loop runs however often page scripts are scheduled
\* (every fetch request is assumed to be answered).
ExtractFairSpec ==
    ExtractSpec /\ WF_vars(ObserverCallback) /\ SF_vars(FetchReturns)

(***************************************************************************)
(* Claims about the Chunking Summarizer                                    *)
(***************************************************************************)

\* C2: splitText always finishes because its start offset strictly
\* advances from one chunk to the next: every iteration of the loop that
\* is followed by another iteration has increased start.
C2_StartStrictlyAdvances ==
    [][(sumPc = "advance" /\ sumPc' = "split") => start' > start]_vars

\* C3: a summarization request always terminates, also when the partial
\* summaries never shrink the text: it ends with a summary, with the
\* truncated prefix, or with the error of a failed model call.
C3_RequestTerminates == <>(sumPc \in {"done", "error"})

(***************************************************************************)
(* Claims about the Retry Messenger                                        *)
(***************************************************************************)

\* The restart-class messages among ErrorMessages: those that contain
\* 'context invalidated', 'Extension context' or 'message port'.
RestartClassMessages ==
    {MsgContextInvalidated, MsgPortClosed, MsgInvalidatedOnly}

IsRestartFailure(entry) ==
    entry[1] = "error" /\ entry[2] \in RestartClassMessages

IsOtherFailure(entry) ==
    entry[1] = "error" /\ entry[2] \notin RestartClassMessages

AllRestartFailures(log, k) == \A i \in 1..k : IsRestartFailure(log[i])

RECURSIVE SumOf(_)
SumOf(seq) == IF seq = <<>> THEN 0 ELSE Head(seq) + SumOf(Tail(seq))

\* The sends made so far: the settled ones and the one in flight.
Sends == Len(channelLog) + (IF retryPc = "await" THEN 1 ELSE 0)

\* C4: when the channel fails with a restart-class error on the first
\* k <= 2 attempts the call is still running after exactly k waits of
\* 200 then 400 ms, and when the next attempt succeeds the call ends in
\* success with that response delivered and no further wait.
C4_RetryThenSuccess ==
    \A k \in 0..2 :
        /\ (Len(channelLog) = k /\ AllRestartFailures(channelLog, k))
              => /\ retryPc \in {"send", "await", "wait"}
                 /\ waits = SubSeq(<<200, 400>>, 1, k)
        /\ (/\ Len(channelLog) = k + 1
            /\ AllRestartFailures(channelLog, k)
            /\ channelLog[k + 1][1] = "ok")
              => /\ retryPc = "done"
                 /\ retryResult =
                        [kind |-> "success", value |-> <<channelLog[k + 1][2]>>]
                 /\ waits = SubSeq(<<200, 400>>, 1, k)

\* Two restart-class failures, two waits, then success.
C4_Witness ==
    /\ Len(channelLog) = 3
    /\ AllRestartFailures(channelLog, 2)
    /\ channelLog[3][1] = "ok"
    /\ retryResult.kind = "success"
    /\ waits = <<200, 400>>

\* C5: a failure that is not restart-class, at whichever attempt, ends the
\* call at once as a failure carrying that message: it is the last send,
\* and no wait follows it.
C5_OtherErrorNotRetried ==
    \A i \in 1..Len(channelLog) :
        IsOtherFailure(channelLog[i])
            => /\ i = Len(channelLog)
               /\ Sends = i
               /\ retryPc = "done"
               /\ retryResult = [kind |-> "failure", value |-> channelLog[i][2]]
               /\ Len(waits) = i - 1

\* A non-restart failure on the first attempt: one send, no wait.
C5_Witness ==
    /\ Len(channelLog) = 1
    /\ IsOtherFailure(channelLog[1])
    /\ retryPc = "done"
    /\ waits = <<>>

\* C6: a call makes at most maxRetries sends and waits at most 600 ms in
\* total; when every attempt fails with a restart-class error the last
\* failure is surfaced with its message and without a third wait.
C6_RetryBounded ==
    /\ Sends <= maxRetries
    /\ SumOf(waits) <= 600
    /\ (Len(channelLog) = maxRetries
        /\ AllRestartFailures(channelLog, maxRetries))
          => /\ retryPc = "done"
             /\ retryResult =
                    [kind |-> "failure", value |-> channelLog[maxRetries][2]]
             /\ waits = <<200, 400>>

\* Three restart-class failures in a row.
C6_Witness ==
    /\ Len(channelLog) = maxRetries
    /\ AllRestartFailures(channelLog, maxRetries)
    /\ retryResult.kind = "failure"

(***************************************************************************)
(* The SAVE_TOS handler of the background script                           *)
(***************************************************************************)

\* The entry handleSaveRequest pushes: { ...tosData, savedAt }.
savedEntry(r, tab) == [tab |-> tab, savedBy |-> r]

\* sendResponse(...) ends the handling of request r.
saveRespond(r, response) ==
    saveReq' = [saveReq EXCEPT ![r].pc = "done", ![r].response = response]

\* A SAVE_TOS message arrives: the tabId test and the call of
\* chrome.storage.local.get([`tos_${tabId}`]).
SaveReceive(r) ==
    /\ saveReq[r].pc = "idle"
    /\ \E tab \in Tabs \cup {"none"} :
          IF tab = "none"
          THEN saveRespond(r, "failure")
          ELSE saveReq' = [saveReq EXCEPT ![r].pc = "getTos", ![r].tab = tab]
    /\ UNCHANGED <<storedTos, saved_tos_list>>
    /\ SaveFrame

\* A variant that goes on to the saved list without the tosData test.
SaveTosReadNoTest(r) ==
    /\ saveReq[r].pc = "getTos"
    /\ saveReq' = [saveReq EXCEPT ![r].pc = "getList"]
    /\ UNCHANGED <<storedTos, saved_tos_list>>
    /\ SaveFrame

\* The get of tos_<tab> resolves: the tosData test and the call of
\* chrome.storage.local.get(["saved_tos_list"]).
SaveTosRead(r) ==
    /\ saveReq[r].pc = "getTos"
    /\ IF storedTos[saveReq[r].tab]
       THEN saveReq' = [saveReq EXCEPT ![r].pc = "getList"]
       ELSE saveRespond(r, "failure")
    /\ UNCHANGED <<storedTos, saved_tos_list>>
    /\ SaveFrame

\* The get of saved_tos_list resolves with the stored array: list.push
\* and the call of chrome.storage.local.set({ saved_tos_list: list }).
SaveListRead(r) ==
    /\ saveReq[r].pc = "getList"
    /\ saveReq' = [saveReq EXCEPT
                     ![r].pc = "set",
                     ![r].list = Append(saved_tos_list,
                                        savedEntry(r, saveReq[r].tab))]
    /\ UNCHANGED <<storedTos, saved_tos_list>>
    /\ SaveFrame

\* The set is applied and resolves: sendResponse({ success: true }).
SaveSet(r) ==
    /\ saveReq[r].pc = "set"
    /\ saved_tos_list' = saveReq[r].list
    /\ saveRespond(r, "success")
    /\ UNCHANGED storedTos
    /\ SaveFrame

\* A storage call rejects: the catch block answers success: false.
SaveStorageRejects(r) ==
    /\ saveReq[r].pc \in {"getTos", "getList", "set"}
    /\ saveRespond(r, "failure")
    /\ UNCHANGED <<storedTos, saved_tos_list>>
    /\ SaveFrame

SaveInit ==
    /\ storedTos \in [Tabs -> BOOLEAN]
    /\ saved_tos_list \in {<<>>, <<savedEntry(0, "t1")>>}
    /\ saveReq = [r \in SaveRequests |-> NoSave]
    /\ SumIdle
    /\ RetryIdle
    /\ PageIdle
    /\ FlightIdle
    /\ LinkIdle
    /\ VerifyIdle
    /\ BgIdle

SaveNext ==
    \E r \in SaveRequests :
        \/ SaveReceive(r)
        \/ SaveTosRead(r)
        \/ SaveListRead(r)
        \/ SaveSet(r)
        \/ SaveStorageRejects(r)

SaveSpec == SaveInit /\ [][SaveNext]_vars

(***************************************************************************)
(* Requests started in one page context                                    *)
(***************************************************************************)

\* The observer's checkForTosPopup accepts element e (the conditions on
\* the document are those of the Popup Detector above): handleTosDetection
\* and detectedElements.add. A button created here is enabled.
FlightDetect(e) ==
    /\ e \notin Range(detectedElements)
    /\ LET d == handleTosDetection(detectorState, e)
       IN  /\ detectedElements' = Append(detectedElements, e)
           /\ currentTosElement' = d.current
           /\ fabButton' = d.fab
           /\ fabCount' = d.count
           /\ fabDisabled' = IF fabButton = "attached" THEN fabDisabled
                             ELSE FALSE
    /\ UNCHANGED <<explainPending, extractPending, resultOverlay,
                   mutationQueue>>
    /\ FlightFrame

\* The observer sees the tracked element removed or hidden: hideFab.
FlightHide ==
    /\ currentTosElement # "null"
    /\ LET d == hideFab(detectorState)
       IN  /\ currentTosElement' = d.current
           /\ fabButton' = d.fab
           /\ fabCount' = d.count
    /\ fabDisabled' = FALSE
    /\ UNCHANGED <<detectedElements, explainPending, extractPending,
                   resultOverlay, mutationQueue>>
    /\ FlightFrame

\* showResult(message): an existing .legal-lens-result is removed and a new
\* overlay holding the message is appended to document.body; the observer
\* of document.body receives a record for each of the two changes.
showResult(overlay, queue) ==
    (IF overlay # "none"
     THEN Append(queue, [type |-> "remove", node |-> "result",
                         by |-> "extension"])
     ELSE queue)
        \o <<[type |-> "add", node |-> "result", by |-> "extension"]>>

\* A click on the enabled button: the click handler calls
\* handleExplainClick(currentTosElement), which disables the button and,
\* when the element's text is long enough, awaits sendMessageWithRetry;
\* otherwise it calls showResult("Could not extract sufficient text from
\* the Terms of Service.") and resetExplainButton and returns. The
\* observer's records are delivered before the next task starts.
ExplainClick ==
    /\ fabButton = "attached"
    /\ ~fabDisabled
    /\ currentTosElement # "null"
    /\ mutationQueue = <<>>
    /\ explainPending + extractPending < MaxRequests
    /\ \E longEnough \in BOOLEAN :
          IF longEnough
          THEN /\ fabDisabled' = TRUE
               /\ explainPending' = explainPending + 1
               /\ UNCHANGED <<resultOverlay, mutationQueue>>
          ELSE /\ fabDisabled' = FALSE
               /\ resultOverlay' = "legal"
               /\ mutationQueue' = showResult(resultOverlay, mutationQueue)
               /\ UNCHANGED explainPending
    /\ UNCHANGED <<detectedElements, currentTosElement, fabButton, fabCount,
                   extractPending>>
    /\ FlightFrame

\* sendMessageWithRetry of a click returns: handleSummarizeResponse shows
\* the summary (whose text may hold a keyword) or "Failed to summarize",
\* or the final catch shows "Error communicating with extension"; then
\* resetExplainButton enables the button fabButton refers to.
ExplainSettles ==
    /\ explainPending > 0
    /\ mutationQueue = <<>>
    /\ explainPending' = explainPending - 1
    /\ fabDisabled' = FALSE
    /\ \E message \in {"plain", "legal"} :
          /\ resultOverlay' = message
          /\ mutationQueue' = showResult(resultOverlay, mutationQueue)
    /\ UNCHANGED <<detectedElements, currentTosElement, fabButton, fabCount,
                   extractPending>>
    /\ FlightFrame

\* The close button of the overlay is clicked, or the timer showResult set
\* fires while the overlay is in the document: overlay.remove().
ResultOverlayRemoved ==
    /\ resultOverlay # "none"
    /\ mutationQueue = <<>>
    /\ resultOverlay' = "none"
    /\ mutationQueue' = <<[type |-> "remove", node |-> "result",
                           by |-> "extension"]>>
    /\ UNCHANGED <<detectedElements, currentTosElement, fabButton, fabCount,
                   fabDisabled, explainPending, extractPending>>
    /\ FlightFrame

\* The MutationObserver callback runs on the records of the overlay. A
\* button created here is enabled.
FlightObserve ==
    /\ mutationQueue # <<>>
    /\ LET d == processBatch(detectorState, mutationQueue)
       IN  /\ detectedElements' = d.detected
           /\ currentTosElement' = d.current
           /\ fabButton' = d.fab
           /\ fabCount' = d.count
           /\ mutationQueue' = d.out
           /\ fabDisabled' = IF d.count > fabCount THEN FALSE
                             ELSE fabDisabled
    /\ UNCHANGED <<explainPending, extractPending, resultOverlay>>
    /\ FlightFrame

\* handleMessage receives EXTRACT_TOS_TEXT and calls extractTosTextFromPage.
ExtractMessage ==
    /\ explainPending + extractPending < MaxRequests
    /\ extractPending' = extractPending + 1
    /\ UNCHANGED <<detectedElements, currentTosElement, fabButton, fabCount,
                   fabDisabled, explainPending, resultOverlay,
                   mutationQueue>>
    /\ FlightFrame

\* extractTosTextFromPage settles and the response is sent.
ExtractSettles ==
    /\ extractPending > 0
    /\ extractPending' = extractPending - 1
    /\ UNCHANGED <<detectedElements, currentTosElement, fabButton, fabCount,
                   fabDisabled, explainPending, resultOverlay,
                   mutationQueue>>
    /\ FlightFrame

FlightInit ==
    /\ SumIdle
    /\ RetryIdle
    /\ PageIdle
    /\ SaveIdle
    /\ FlightIdle
    /\ LinkIdle
    /\ VerifyIdle
    /\ BgIdle

FlightNext ==
    \/ \E e \in PageElems : FlightDetect(e)
    \/ FlightHide
    \/ ExplainClick
    \/ ExplainSettles
    \/ ResultOverlayRemoved
    \/ FlightObserve
    \/ ExtractMessage
    \/ ExtractSettles

FlightSpec == FlightInit /\ [][FlightNext]_vars

(***************************************************************************)
(* Claims about the Popup Detector                                         *)
(***************************************************************************)

\* The most recently detected element.
LastDetected(detected) == detected[Len(detected)]

\* Every mutation record of the page has been delivered to the observer.
BatchesProcessed ==
    \A i \in 1..Len(mutationQueue) : mutationQueue[i].by = "extension"

\* C7 (as stated): first-detected wins: while the tracked element stays
\* attached and visible, no step changes which element is tracked.
C7_FirstDetectedWins ==
    [][(/\ currentTosElement # "null"
        /\ isElementVisible(currentTosElement, fabButton)
        /\ isElementVisible(currentTosElement, fabButton)')
          => currentTosElement' = currentTosElement]_vars

\* C7 (amended): one element is tracked at a time and the most recently
\* detected wins: a step that detects elements leaves the last of them
\* tracked (or nothing, when hideFab ran after it), and the tracked element
\* changes in no other way than to that element or to null.
C7_LastDetectedWins ==
    [][/\ (Len(detectedElements') > Len(detectedElements))
             => currentTosElement' \in {"null", LastDetected(detectedElements')}
       /\ (currentTosElement' # currentTosElement)
             => \/ currentTosElement' = "null"
                \/ /\ Len(detectedElements') > Len(detectedElements)
                   /\ currentTosElement' = LastDetected(detectedElements')]_vars

\* The observer detected a second element (the sweep at load would have
\* met p1 before p2), which is now tracked while the element detected
\* first is still attached and visible.
C7_Witness ==
    /\ Len(detectedElements) >= 2
    /\ detectedElements[1] = "p2"
    /\ currentTosElement = LastDetected(detectedElements)
    /\ isElementVisible(detectedElements[1], fabButton)
    /\ fabCount = 1

\* C9: after every processed mutation batch the tracked element, if any,
\* is attached to the document and visible.
C9_TrackedElementVisible ==
    (BatchesProcessed /\ currentTosElement # "null")
        => isElementVisible(currentTosElement, fabButton)

\* C10: at most one explain button created by the detector is in the page,
\* and it is the one fabButton refers to.
C10_SingleAffordance ==
    /\ fabCount \in {0, 1}
    /\ fabCount = 1 <=> fabButton = "attached"

\* Elements were detected again and again, the button was hidden or
\* removed in between, and one button is shown.
C10_Witness ==
    /\ Len(detectedElements) >= 3
    /\ fabCount = 1
    /\ currentTosElement # "null"

(***************************************************************************)
(* Claims about the Extraction Orchestrator                                *)
(***************************************************************************)

\* The step in which extractTosTextFromPage returns.
ExtractionReturns == exPc # "done" /\ exPc' = "done"

\* Some candidate link was fetched and verified as a legal document.
LegalLinkFound ==
    \E i \in 1..Len(fetchLog') : fetchLog'[i].outcome = "legal"

\* The first element ever detected has at least 50 characters of text.
FirstDetectedHasText ==
    /\ Len(detectedElements) > 0
    /\ extractTosText(detectedElements[1], fabButton) >= 50

\* The tracked element has at least 50 characters of text.
TrackedHasText ==
    /\ currentTosElement # "null"
    /\ extractTosText(currentTosElement, fabButton) >= 50

\* Some visible element of the document that matches a common popup
\* selector has at least 50 characters of text.
CommonElementHasText ==
    \E e \in AllElems :
        /\ inDocument(e, fabButton)
        /\ \E i \in 1..Len(commonSelectors) : matches(e, commonSelectors[i])
        /\ isElementVisible(e, fabButton)
        /\ extractTosText(e, fabButton) >= 50

\* C1 (as stated): fetched-link if a candidate verifies; otherwise
\* current-page-popup if the tracked popup element has at least 50
\* characters; otherwise current-page-element if a visible common-selector
\* element has; otherwise none.
C1_FallbackOrderTracked ==
    [][ExtractionReturns
         => exResult'.source =
               IF LegalLinkFound THEN "fetched-link"
               ELSE IF TrackedHasText THEN "current-page-popup"
               ELSE IF CommonElementHasText THEN "current-page-element"
               ELSE "none"]_vars

\* C1 (amended): the same order, the second step being decided by the
\* first element of detectedElements (the element detected first since the
\* page was loaded, tracked or not, attached or not).
C1_FallbackOrder ==
    [][ExtractionReturns
         => exResult'.source =
               IF LegalLinkFound THEN "fetched-link"
               ELSE IF FirstDetectedHasText THEN "current-page-popup"
               ELSE IF CommonElementHasText THEN "current-page-element"
               ELSE "none"]_vars

\* Two candidates were tried and rejected and the popup step answered
\* although a common-selector element was there to fall back on.
C1_Witness ==
    /\ exPc = "done"
    /\ Len(fetchLog) = 2
    /\ exResult.source = "current-page-popup"
    /\ CommonElementHasText

\* C8 (as stated): the element returned with source current-page-popup
\* is the element the detector tracks.
C8_ReturnsTrackedElement ==
    [][(/\ ExtractionReturns
        /\ exResult'.source = "current-page-popup"
        /\ currentTosElement # "null")
          => exResult'.elem = currentTosElement]_vars

\* C8 (amended): the element returned with source current-page-popup is
\* the first element of detectedElements, its text has at least 50
\* characters and no candidate link verified.
C8_ReturnsFirstDetected ==
    [][(ExtractionReturns /\ exResult'.source = "current-page-popup")
          => /\ exResult'.elem = detectedElements[1]
             /\ extractTosText(exResult'.elem, fabButton) >= 50
             /\ ~LegalLinkFound]_vars

\* The popup step returned the element detected first while another
\* element is the tracked one.
C8_Witness ==
    /\ exPc = "done"
    /\ exResult.source = "current-page-popup"
    /\ exResult.elem = detectedElements[1]
    /\ currentTosElement \notin {"null", exResult.elem}

(***************************************************************************)
(* Claims about excluded elements                                          *)
(***************************************************************************)

\* C11: an element that matches an exclude selector or lies inside a
\* container matching one is never detected: it is not in detectedElements
\* (the branch that adds it is the one that sends DETECT_TOS) and it is
\* not the tracked element.
C11_ExcludedNeverDetected ==
    \A e \in AllElems :
        shouldExcludeElement(e, fabButton)
            => /\ e \notin Range(detectedElements)
               /\ currentTosElement # e

\* The popup inside the ad banner is attached, visible, holds a keyword,
\* is modal-like and long enough, every record has been processed and
\* the observer detected other elements after the sweep, yet it was not.
C11_Witness ==
    /\ BatchesProcessed
    /\ shouldExcludeElement("p3", fabButton)
    /\ isElementVisible("p3", fabButton)
    /\ hasKeyword("p3", fabButton)
    /\ isModalLike("p3") /\ hasEnoughText("p3", fabButton)
    /\ Len(detectedElements) >= 2
    /\ detectedElements[1] = "p2"
    /\ "p3" \notin Range(detectedElements)

(***************************************************************************)
(* Claims about summarizeLocally                                           *)
(***************************************************************************)

C13_NoSaveLost ==
    \A r \in SaveRequests :
        saveReq[r].response = "success"
            => \E i \in 1..Len(saved_tos_list) : saved_tos_list[i].savedBy = r

(***************************************************************************)
(* Claims about requests in flight                                         *)
(***************************************************************************)

\* C14: at every moment a page context has at most one extraction or
\* summarization request in flight, whether started from the button or
\* by an EXTRACT_TOS_TEXT message.
C14_SingleRequestInFlight == explainPending + extractPending <= 1

(***************************************************************************)
(* Claims about the Link Scorer                                            *)
(***************************************************************************)

\* The link detectTosLinks returned for the anchor at index i, if any.
LinksOf(i) == {j \in 1..Len(links) : links[j].anchor = i}

\* The anchor's own text, title and aria-label hold no keyword.
NoTextMatch(a) ==
    \A k \in 1..Len(linkKeywords) : ~includes(combinedText(a), linkKeywords[k])

\* The anchor's href holds a keyword in slug or concatenated form.
HrefMatch(a) ==
    \E k \in 1..Len(linkKeywords) : hrefIncludes(a.href, linkKeywords[k])

\* C17: every anchor (not skipped) whose link text exactly equals a
\* link keyword is returned with confidence 100, whatever its title,
\* aria-label and href.
C17_ExactTextScores100 ==
    linkPc = "done"
        => \A i \in 1..Len(allLinks) :
              (/\ ~skipLink(allLinks[i])
               /\ \E k \in 1..Len(linkKeywords) :
                     allLinks[i].text = linkKeywords[k])
                 => \E j \in LinksOf(i) : links[j].confidence = 100

\* C18: an anchor (not skipped) whose href holds a keyword is returned
\* with confidence at least 70 and not below the confidence of the text
\* rule; when nothing but the href matches the confidence is at most 70.
C18_UrlRule ==
    linkPc = "done"
        => \A i \in 1..Len(allLinks) :
              (~skipLink(allLinks[i]) /\ HrefMatch(allLinks[i]))
                 => /\ LinksOf(i) # {}
                    /\ \A j \in LinksOf(i) :
                          /\ links[j].confidence >= 70
                          /\ links[j].confidence
                                >= textRule(allLinks[i]).confidence
                          /\ NoTextMatch(allLinks[i])
                                => links[j].confidence <= 70

\* The scan returned a link matched by its href alone, with confidence
\* 70, and a link whose text rule gave 100 and whose href matches too.
C18_Witness ==
    /\ linkPc = "done"
    /\ \E i \in 1..Len(allLinks) :
          /\ HrefMatch(allLinks[i]) /\ NoTextMatch(allLinks[i])
          /\ \E j \in LinksOf(i) : links[j].confidence = 70
    /\ \E i \in 1..Len(allLinks) :
          /\ HrefMatch(allLinks[i])
          /\ \E j \in LinksOf(i) : links[j].confidence = 100

(***************************************************************************)
(* Claims about the candidate loop                                         *)
(***************************************************************************)

\* C15: the candidates are fetched one at a time in ranked order: the
\* fetches done so far are those of the first candidates of the ranked
\* list, in descending confidence; while a fetch is pending it is the one
\* of the next candidate and no earlier candidate verified; a failed fetch
\* or verification moves on, so a pass without a verified document has
\* tried every candidate; a verified document is the last one fetched.
C15_SequentialRankedFetch ==
    /\ Len(fetchLog) <= Len(pageLinks)
    /\ \A i \in 1..Len(fetchLog) : fetchLog[i].link = pageLinks[i]
    /\ \A i, j \in 1..Len(fetchLog) :
          i < j => fetchLog[i].link.confidence >= fetchLog[j].link.confidence
    /\ \A i \in 1..(Len(fetchLog) - 1) : fetchLog[i].outcome # "legal"
    /\ exPc = "fetching"
          => /\ exIndex = Len(fetchLog) + 1
             /\ exIndex <= Len(pageLinks)
             /\ \A i \in 1..Len(fetchLog) : fetchLog[i].outcome # "legal"
    /\ (exPc = "done" /\ exResult.source # "pending")
          => \/ /\ fetchLog # <<>>
                /\ fetchLog[Len(fetchLog)].outcome = "legal"
             \/ Len(fetchLog) = Len(pageLinks)

\* The link of lower document position but higher confidence was fetched
\* first and failed, the fetch of the second one is pending.
C15_Witness ==
    /\ exPc = "fetching"
    /\ Len(fetchLog) = 1
    /\ fetchLog[1].outcome \in {"fetch-failed", "not-legal"}
    /\ fetchLog[1].link.anchor = 2
    /\ pageLinks[exIndex].anchor = 1

\* C16: an extraction request that is waiting for a candidate's fetch
\* eventually returns its one ExtractionResult, given that every fetch
\* request is answered.
C16_ExtractionResponds ==
    (exPc = "fetching") ~> (exPc = "done" /\ exResult.source # "pending")

\* Every candidate was fetched and rejected and the request returned
\* with nothing found.
C16_Witness ==
    /\ exPc = "done"
    /\ Len(pageLinks) = MaxLinks
    /\ Len(fetchLog) = Len(pageLinks)
    /\ exResult.source = "none"

(***************************************************************************)
(* Claims about the Document Verifier                                      *)
(***************************************************************************)

\* C19: verifyTosDocument answers isToS = true exactly when the cleaned
\* text has at least 500 characters and at least 3 distinct legal terms
\* occur in it; below 500 characters it answers isToS = false with
\* confidence 0 and empty text, whatever terms occur.
C19_VerifierThreshold ==
    verifyPc = "done"
        => /\ verification.isToS
                <=> (document.len >= 500 /\ Cardinality(document.terms) >= 3)
           /\ document.len < 500
                => verification =
                      [isToS |-> FALSE, confidence |-> 0, text |-> 0]

\* A document of 499 characters that holds four legal terms was rejected.
C19_Witness ==
    /\ verifyPc = "done"
    /\ document.len = 499
    /\ Cardinality(document.terms) >= 4
    /\ ~verification.isToS

(***************************************************************************)
(* Claims about the direct case of the Chunking Summarizer                 *)
(***************************************************************************)

\* C20: for a request whose text has at most MAX_LENGTH characters
\* summarizeChunksRecursively neither splits nor recurses, makes one
\* summarize call and returns the value of that call as it is.
C20_ShortTextOneCall ==
    (depth = 0 /\ inputText.len <= MAX_LENGTH /\ sumPc # "create")
        => /\ sumPc \in {"enter", "direct", "done", "error"}
           /\ chunks = <<>>
           /\ modelCalls <= 1
           /\ (sumPc = "done" /\ result.kind # "none")
                 => /\ modelCalls = 1
                    /\ result = [kind |-> "summary", len |-> directOutput]

\* A text of exactly MAX_LENGTH characters was summarized by one call
\* whose long answer was returned.
C20_Witness ==
    /\ sumPc = "done"
    /\ depth = 0
    /\ inputText.len = MAX_LENGTH
    /\ modelCalls = 1
    /\ result = [kind |-> "summary", len |-> MAX_LENGTH + 1]

(***************************************************************************)
(* Claims about the chunks of splitText                                    *)
(***************************************************************************)

\* The chunk list holds every chunk splitText pushed.
ChunksComplete == Len(chunks) < MaxChunks

C23_UnavailableStatus ==
    availability \in {"absent", "unavailable"}
        => /\ sumPc \in {"create", "done"}
           /\ modelCalls = 0
           /\ chunks = <<>>
           /\ sumPc = "done"
                 => /\ artifact.status = "unavailable"
                    /\ artifact.status \notin
                          {"error", "download-error", "readily",
                           "downloaded-and-ready"}
                    /\ result = NoResult

\* A request in a browser without the Summarizer API was answered.
C23_Witness ==
    /\ availability = "absent"
    /\ sumPc = "done"
    /\ artifact.status = "unavailable"
    /\ inputText.len > MAX_LENGTH

(***************************************************************************)
(* SIMPLIFY_TOS and EXTRACT_TEXT handlers (background.js) with the         *)
(* EXTRACT_TOS_TEXT handler of the content script                          *)
(***************************************************************************)

\* Bound of the number of requests the background script receives.
MaxBgRequests == 2

\* A text is undefined ("missing"), "" ("empty"), whitespace only
\* ("blank") or holds other characters ("text").
BgTexts == {"missing", "empty", "blank", "text"}

\* The messages: SIMPLIFY_TOS (tabId: message.tabId || sender.tab?.id is
\* defined) and EXTRACT_TEXT (tabId: sender.tab?.id is defined).
BgMessages ==
    {[type |-> "SIMPLIFY_TOS", tabId |-> t, text |-> "missing"] :
        t \in BOOLEAN}
    \cup {[type |-> "EXTRACT_TEXT", tabId |-> t, text |-> x] :
            t \in BOOLEAN, x \in BgTexts}

\* The ways extractTosTextFromPage ends: one of its four return statements
\* or a rejection; caught tells whether an exception was thrown and caught
\* on the way (the catch block of fetchTosPage or of step 1).
ExtractionOutcomes ==
    {[settled |-> "returned", text |-> "text", source |-> s, caught |-> c] :
        s \in {"fetched-link", "current-page-popup", "current-page-element"},
        c \in BOOLEAN}
    \cup {[settled |-> "returned", text |-> "empty", source |-> "none",
           caught |-> c] : c \in BOOLEAN}
    \cup {[settled |-> "threw", text |-> "missing", source |-> "missing",
           caught |-> c] : c \in BOOLEAN}

\* The values summarizeLocally returns as status.
SummaryStatuses ==
    {"readily", "downloaded-and-ready", "unavailable", "download-error",
     "error"}

\* result.text || ""
orEmpty(t) == IF t = "missing" THEN "empty" ELSE t

\* result.source || "unknown", response?.source || "unknown"
orUnknown(s) == IF s = "missing" THEN "unknown" ELSE s

\* handleMessage, case EXTRACT_TOS_TEXT: the response of the .then and of
\* the .catch callback.
handleMessage(x) ==
    IF x.settled = "returned"
    THEN [lastError |-> FALSE, received |-> TRUE, success |-> TRUE,
          text |-> orEmpty(x.text), source |-> orUnknown(x.source)]
    ELSE [lastError |-> FALSE, received |-> TRUE, success |-> FALSE,
          text |-> "empty", source |-> "missing"]

\* The callback of chrome.tabs.sendMessage is called with
\* chrome.runtime.lastError set and no response.
lastErrorReply ==
    [lastError |-> TRUE, received |-> FALSE, success |-> FALSE,
     text |-> "missing", source |-> "missing"]

\* handleSimplifyRequest: !response || !response.text
hasNoText(r) == ~r.received \/ r.text \in {"missing", "empty"}

\* handleSimplifyRequest: the two failure responses of the callback.
simplifyFailure(r) ==
    IF r.lastError
    THEN [sent |-> TRUE, success |-> FALSE,
          error |-> "Failed to communicate with content script",
          source |-> "missing", status |-> "none"]
    ELSE [sent |-> TRUE, success |-> FALSE,
          error |-> IF r.source = "none"
                    THEN "No Terms of Service found on this page"
                    ELSE "No ToS text found on page",
          source |-> orUnknown(r.source), status |-> "none"]

\* A variant that tests the text without trimming it.
noTextExtractedUntrimmed(t) == t \in {"missing", "empty"}

\* handleTextExtraction: !message.text || message.text.trim().length === 0
noTextExtracted(t) == t \in {"missing", "empty", "blank"}

\* sendResponse({ success: false, error })
bgFailure(e) ==
    [sent |-> TRUE, success |-> FALSE, error |-> e, source |-> "missing",
     status |-> "none"]

\* The listener receives a message and runs its handler up to the first
\* await (or to its return).
BgReceive ==
    /\ bgPc = "idle"
    /\ bgServed < MaxBgRequests
    /\ \E msg \in BgMessages :
          /\ bgMessage' = msg
          /\ IF msg.type = "SIMPLIFY_TOS"
             THEN IF ~msg.tabId
                  THEN /\ bgResponse' = bgFailure("No tab ID provided")
                       /\ bgPc' = "idle"
                       /\ summarizeCalls' = 0
                  ELSE /\ bgResponse' = NoBgResponse
                       /\ bgPc' = "extracting"
                       /\ summarizeCalls' = 0
             ELSE IF noTextExtracted(msg.text)
                  THEN /\ bgResponse' = bgFailure("No text extracted")
                       /\ bgPc' = "idle"
                       /\ summarizeCalls' = 0
                  ELSE /\ bgResponse' = NoBgResponse
                       /\ bgPc' = "summarizing"
                       /\ summarizeCalls' = 1
    /\ bgServed' = bgServed + 1
    /\ extraction' = NoExtractionOutcome
    /\ csReply' = NoReply
    /\ storageWrites' = 0
    /\ BgFrame

\* handleSimplifyRequest: the callback runs with chrome.runtime.lastError.
BgChannelFails ==
    /\ bgPc = "extracting"
    /\ csReply' = lastErrorReply
    /\ bgResponse' = simplifyFailure(lastErrorReply)
    /\ bgPc' = "idle"
    /\ UNCHANGED <<bgMessage, extraction, summarizeCalls, storageWrites,
                   bgServed>>
    /\ BgFrame

\* extractTosTextFromPage settles in the tab, handleMessage answers, and
\* the callback of handleSimplifyRequest runs up to its first await.
BgReplyArrives ==
    /\ bgPc = "extracting"
    /\ \E x \in ExtractionOutcomes :
          /\ extraction' = x
          /\ csReply' = handleMessage(x)
    /\ IF hasNoText(csReply')
       THEN /\ bgResponse' = simplifyFailure(csReply')
            /\ bgPc' = "idle"
            /\ UNCHANGED summarizeCalls
       ELSE /\ bgPc' = "summarizing"
            /\ summarizeCalls' = summarizeCalls + 1
            /\ UNCHANGED bgResponse
    /\ UNCHANGED <<bgMessage, storageWrites, bgServed>>
    /\ BgFrame

\* await summarizeLocally(...) returns { summary, status }; the handler
\* stores the summary where a tab id is known (bgResponse.status keeps the
\* const status until the response is sent).
BgSummarizeReturns ==
    /\ bgPc = "summarizing"
    /\ \E st \in SummaryStatuses :
          IF bgMessage.type = "EXTRACT_TEXT" /\ ~bgMessage.tabId
          THEN /\ bgResponse' = [sent |-> TRUE, success |-> TRUE,
                                 error |-> "none", source |-> "missing",
                                 status |-> st]
               /\ bgPc' = "idle"
               /\ UNCHANGED storageWrites
          ELSE /\ bgResponse' = [NoBgResponse EXCEPT !.status = st]
               /\ bgPc' = "storing"
               /\ storageWrites' = storageWrites + 1
    /\ UNCHANGED <<bgMessage, extraction, csReply, summarizeCalls, bgServed>>
    /\ BgFrame

\* await chrome.storage.local.set(...) resolves and the handler responds.
BgStorageResolves ==
    /\ bgPc = "storing"
    /\ bgResponse' = [sent |-> TRUE, success |-> TRUE, error |-> "none",
                      source |-> csReply.source,
                      status |-> bgResponse.status]
    /\ bgPc' = "idle"
    /\ UNCHANGED <<bgMessage, extraction, csReply, summarizeCalls,
                   storageWrites, bgServed>>
    /\ BgFrame

\* await chrome.storage.local.set(...) rejects: handleTextExtraction
\* answers from its catch block; the async callback of
\* handleSimplifyRequest is outside the try block and sends nothing.
BgStorageRejects ==
    /\ bgPc = "storing"
    /\ bgResponse' = IF bgMessage.type = "EXTRACT_TEXT"
                     THEN bgFailure("error.message")
                     ELSE bgResponse
    /\ bgPc' = "idle"
    /\ UNCHANGED <<bgMessage, extraction, csReply, summarizeCalls,
                   storageWrites, bgServed>>
    /\ BgFrame

BgInit ==
    /\ BgIdle
    /\ SumIdle
    /\ RetryIdle
    /\ PageIdle
    /\ SaveIdle
    /\ FlightIdle
    /\ LinkIdle
    /\ VerifyIdle

BgNext ==
    \/ BgReceive
    \/ BgChannelFails
    \/ BgReplyArrives
    \/ BgSummarizeReturns
    \/ BgStorageResolves
    \/ BgStorageRejects

BgSpec == BgInit /\ [][BgNext]_vars

(***************************************************************************)
(* Claims about the failure responses of the background handlers           *)
(***************************************************************************)

\* The request is a SIMPLIFY_TOS request that was answered.
SimplifyAnswered == bgMessage.type = "SIMPLIFY_TOS" /\ bgResponse.sent

\* The response says that the page holds no Terms of Service.
SaysNothingFound ==
    bgResponse.error = "No Terms of Service found on this page"

\* C22: for a SIMPLIFY_TOS request the response that says no Terms of
\* Service was found is produced only when extraction completed with
\* source none, and a failure of the messaging with the content script or
\* an exception inside extraction yields a response that differs from it.
C22_FailureDistinguished ==
    SimplifyAnswered
        => /\ SaysNothingFound
                => extraction.settled = "returned" /\ extraction.source = "none"
           /\ (csReply.lastError \/ extraction.settled = "threw"
                  \/ extraction.caught)
                => ~SaysNothingFound

\* C24: empty input is rejected at once: an EXTRACT_TEXT message whose
\* text is missing, empty or whitespace only, and a SIMPLIFY_TOS request
\* whose extraction returned empty text, are answered with success = false
\* and the handler ends with no summarizeLocally call and no
\* chrome.storage.local.set call.
C24_EmptyInputRejected ==
    (\/ bgMessage.type = "EXTRACT_TEXT"
          /\ bgMessage.text \in {"missing", "empty", "blank"}
     \/ bgMessage.type = "SIMPLIFY_TOS"
          /\ extraction.settled = "returned"
          /\ extraction.text = "empty")
        => /\ bgPc = "idle"
           /\ bgResponse.sent
           /\ ~bgResponse.success
           /\ summarizeCalls = 0
           /\ storageWrites = 0

\* A second request, an EXTRACT_TEXT message of whitespace, was refused.
C24_Witness ==
    /\ bgServed = 2
    /\ bgMessage.type = "EXTRACT_TEXT"
    /\ bgMessage.text = "blank"
    /\ bgResponse = bgFailure("No text extracted")

(***************************************************************************)
(* Claims about the order of the candidate list                            *)
(***************************************************************************)

\* C25: the list detectTosLinks returns is sorted by descending
\* confidence, and candidates of equal confidence keep the document order
\* of their anchors; it holds one candidate for each anchor that scored.
C25_SortedStable ==
    linkPc = "done"
        => /\ \A i, j \in 1..Len(links) :
                 i < j => \/ links[i].confidence > links[j].confidence
                          \/ /\ links[i].confidence = links[j].confidence
                             /\ links[i].anchor < links[j].anchor
           /\ {links[i].anchor : i \in 1..Len(links)}
                 = {k \in 1..Len(allLinks) :
                       ~skipLink(allLinks[k])
                          /\ scoreLink(allLinks[k]).confidence > 0}

\* Two candidates of equal confidence were returned in document order
\* behind no one, and the scan had met them in that order.
C25_Witness ==
    /\ linkPc = "done"
    /\ Len(links) = 2
    /\ links[1].confidence = 80
    /\ links[2].confidence = 80
    /\ links[1].anchor = 1
    /\ allLinks[1] # allLinks[2]

(***************************************************************************)
(* Claims about the requests of one extraction pass                        *)
(***************************************************************************)

\* const absoluteUrl = new URL(href, window.location.href).href, for the
\* anchor a candidate was made from.
absoluteUrl(l) == PageAnchors[l.anchor].href

\* C26: within one extraction pass no link is fetched twice: the pass
\* sends at most one FETCH_TOS_PAGE request for each distinct URL, also
\* when several anchors of the page resolve to the same URL.
C26_NoUrlFetchedTwice ==
    \A i, j \in 1..Len(fetchLog) :
        i < j => absoluteUrl(fetchLog[i].link) # absoluteUrl(fetchLog[j].link)

(***************************************************************************)
(* Claims about references to elements that left the page                  *)
(***************************************************************************)

\* C27: once a detected popup element has been removed from the DOM or
\* has become hidden, a later extraction never returns that element's
\* text with source current-page-popup: the element returned with that
\* source is in the document and visible when the extraction returns.
C27_NoStaleReference ==
    [][(ExtractionReturns /\ exResult'.source = "current-page-popup")
          => /\ inDocument(exResult'.elem, fabButton)
             /\ isElementVisible(exResult'.elem, fabButton)]_vars

(***************************************************************************)
(* Claims about the detection predicate                                    *)
(***************************************************************************)

\* The element's z-index is above 1000 or its class or id holds modal,
\* popup, overlay, dialog or drawer.
LooksModal(e) ==
    \/ ElementMarkup[e].zIndex > 1000
    \/ (ElementMarkup[e].class \cup ElementMarkup[e].id)
          \cap {"modal", "popup", "overlay", "dialog", "drawer"} # {}

\* Some element of the subtree of e holds a legal keyword in its text.
TextHoldsKeyword(e) ==
    \E x \in AllElems :
        /\ ElementMarkup[x].ownKw
        /\ contains(e, x, fabButton)
        /\ x = e \/ isChild(x, fabButton)

\* The elements that can never hold a keyword, whatever is attached.
NeverHoldsKeyword(e) ==
    \A x \in AllElems :
        ElementMarkup[x].ownKw
            => /\ x # e
               /\ ElementMarkup[x].parent # e
               /\ ElementMarkup[x].parent = "body"
                     \/ ElementMarkup[ElementMarkup[x].parent].parent # e

\* C28: checkForTosPopup detects an element (appends it to
\* detectedElements and surfaces it as the tracked element) if and only if
\* the element was not detected before, is not excluded, is visible, its
\* text holds a legal keyword, and it is modal-like or its text has at
\* least 50 characters; otherwise the call changes nothing, and an
\* element that cannot hold a keyword is never detected.
C28_DetectionPredicate ==
    /\ \A e \in AllElems :
          LET d == checkForTosPopup(detectorState, e)
              detects == d.detected # detectedElements
          IN  /\ detects
                    <=> /\ e \notin Range(detectedElements)
                        /\ ~shouldExcludeElement(e, fabButton)
                        /\ isElementVisible(e, fabButton)
                        /\ TextHoldsKeyword(e)
                        /\ \/ LooksModal(e)
                           \/ textContentLength(e, fabButton) >= 50
              /\ detects => /\ d.detected = Append(detectedElements, e)
                            /\ d.current = e
              /\ ~detects => d = detectorState
    /\ \A e \in Range(detectedElements) : ~NeverHoldsKeyword(e)

\* After the initial sweep the observer detected the short modal p1 by
\* its structure; the explain button, visible, modal-like by its z-index
\* and without a keyword, was not detected.
C28_Witness ==
    /\ BatchesProcessed
    /\ Len(detectedElements) >= 2
    /\ detectedElements[1] = "p2"
    /\ "p1" \in Range(detectedElements)
    /\ textContentLength("p1", fabButton) < 50
    /\ fabButton = "attached"
    /\ isElementVisible("fab", fabButton)
    /\ LooksModal("fab")
    /\ "fab" \notin Range(detectedElements)

(***************************************************************************)
(* Claims about the first-match rule of the Link Scorer                    *)
(***************************************************************************)

\* The keywords that occur in the anchor's text, title and aria-label.
KeywordsIn(a) ==
    {k \in 1..Len(linkKeywords) : includes(combinedText(a), linkKeywords[k])}

\* The confidence the first keyword of the list that occurs gives: 100
\* when the link text equals it, 80 when the link text holds it, else 60.
FirstMatchConfidence(a) ==
    IF KeywordsIn(a) = {} THEN 0
    ELSE LET k == CHOOSE i \in KeywordsIn(a) : \A j \in KeywordsIn(a) : i <= j
         IN  IF a.text = linkKeywords[k] THEN 100
             ELSE IF includes(a.text, linkKeywords[k]) THEN 80
             ELSE 60

\* The final confidence: the href rule lifts the first-match confidence
\* to 70 at least.
FinalConfidence(a) ==
    IF HrefMatch(a) THEN Max(FirstMatchConfidence(a), 70)
    ELSE FirstMatchConfidence(a)

\* C29: the text-based confidence of an anchor is decided by the first
\* keyword, in keyword-list order, that occurs in its text, title and
\* aria-label taken together; later keywords never change it, also when
\* one of them would score higher; an anchor whose final confidence is 0
\* is not in the output, and every other anchor that is not skipped is.
C29_FirstMatchRule ==
    linkPc = "done"
        => /\ \A j \in 1..Len(links) :
                 /\ links[j].confidence = FinalConfidence(allLinks[links[j].anchor])
                 /\ links[j].confidence > 0
           /\ \A i \in 1..Len(allLinks) :
                 LinksOf(i) # {}
                    <=> (~skipLink(allLinks[i]) /\ FinalConfidence(allLinks[i]) > 0)

\* A link whose text is the keyword "terms" and whose aria-label holds the
\* earlier keyword "legal" was returned with confidence 60, and an anchor
\* without any keyword was left out.
C29_Witness ==
    /\ linkPc = "done"
    /\ Len(allLinks) = 2
    /\ Len(links) = 1
    /\ allLinks[links[1].anchor].text = <<"terms">>
    /\ allLinks[links[1].anchor].aria = <<"legal">>
    /\ links[1].confidence = 60
    /\ \E i \in 1..2 : ~skipLink(allLinks[i]) /\ LinksOf(i) = {}

(***************************************************************************)
(* Claims about the last resort of the Extraction Orchestrator             *)
(***************************************************************************)

\* C30: an element returned with source current-page-element satisfies
\* the predicates of the Popup Detector: it is visible, its text has at
\* least 50 characters and holds a legal keyword, and it is neither an
\* excluded (ad, promo, banner) element nor inside one.
C30_LastResortPredicates ==
    [][(ExtractionReturns /\ exResult'.source = "current-page-element")
          => /\ isElementVisible(exResult'.elem, fabButton)
             /\ extractTosText(exResult'.elem, fabButton) >= 50
             /\ hasKeyword(exResult'.elem, fabButton)
             /\ ~shouldExcludeElement(exResult'.elem, fabButton)]_vars

(***************************************************************************)
(* Claims about the size of the chunks                                     *)
(***************************************************************************)

\* C34: every chunk splitText produces has at most MAX_LENGTH characters,
\* for every text and every placement of its '.' characters.
C34_ChunkWithinBudget ==
    \A i \in 1..Len(chunks) : chunks[i].to - chunks[i].from <= MAX_LENGTH

(***************************************************************************)
(* Claims about the anchors the Link Scorer leaves out                     *)
(***************************************************************************)

\* C40: an anchor whose href is empty, is exactly "#" or starts with
\* "javascript:" never appears in the candidate list, whatever its text,
\* title and aria-label hold.
C40_SkippedHrefs ==
    linkPc = "done"
        => \A i \in 1..Len(allLinks) :
              allLinks[i].href.kind \in {"empty", "hash", "javascript"}
                 => LinksOf(i) = {}

\* An anchor with the text "terms of service" and a javascript: href that
\* names the terms was left out, an anchor with an empty href and the same
\* text too.
C40_Witness ==
    /\ linkPc = "done"
    /\ Len(allLinks) = 2
    /\ links = <<>>
    /\ allLinks[1].href.kind = "javascript"
    /\ allLinks[1].text = <<"terms", "of", "service">>
    /\ allLinks[2].href.kind = "empty"
    /\ allLinks[2].text = <<"terms", "of", "service">>

(***************************************************************************)
(* Claims about failed summarizations in the handlers                      *)
(***************************************************************************)

\* C33: a failed summarization is never stored or reported as a summary:
\* when summarizeLocally returned the status error, download-error or
\* unavailable, the handler writes nothing to storage and its response,
\* once sent, has success = false.
C33_FailedSummaryNotStored ==
    bgResponse.status \in {"error", "download-error", "unavailable"}
        => /\ storageWrites = 0
           /\ bgResponse.sent => ~bgResponse.success

(***************************************************************************)
(* Claims about the responses of the background listener                   *)
(***************************************************************************)

\* C32: every request the listener handles is answered on every path,
\* also when a collaborator fails: once the handler of a received request
\* has ended, sendResponse has been called for it.
C32_EveryRequestAnswered ==
    (bgServed > 0 /\ bgPc = "idle") => bgResponse.sent

(***************************************************************************)
(* Claims about a save without a stored summary                            *)
(***************************************************************************)

\* C39: a SAVE_TOS for a tab that has no stored tos_<tabId> entry is
\* answered success = false and changes nothing in storage: no step of
\* its handler changes saved_tos_list or a tos_ entry, the handler never
\* reaches the read of the list, and it ends with the failure response.
C39_SaveWithoutEntry ==
    [][\A r \in SaveRequests :
          (/\ saveReq'[r] # saveReq[r]
           /\ saveReq'[r].tab \in Tabs
           /\ ~storedTos[saveReq'[r].tab])
             => /\ saved_tos_list' = saved_tos_list
                /\ storedTos' = storedTos
                /\ saveReq'[r].pc \in {"getTos", "done"}
                /\ saveReq'[r].pc = "done"
                      => saveReq'[r].response = "failure"]_vars

\* A request for tab t2, which has no stored entry, was refused while the
\* list holds an earlier entry and nothing of that request.
C39_Witness ==
    /\ ~storedTos["t2"]
    /\ Len(saved_tos_list) >= 1
    /\ \E r \in SaveRequests :
          /\ saveReq[r].pc = "done"
          /\ saveReq[r].tab = "t2"
          /\ saveReq[r].response = "failure"
          /\ \A i \in 1..Len(saved_tos_list) : saved_tos_list[i].savedBy # r

(***************************************************************************)
(* The Save button of the popup: handleSave sends SAVE_TOS through         *)
(* sendMessageWithRetry to handleSaveRequest                               *)
(***************************************************************************)

ClickFrame ==
    UNCHANGED <<sumVars, pageVars, flightVars, linkVars, verifyVars, bgVars>>

\* The error messages of a channel that the host closed.
ChannelClosedMessages == {MsgPortClosed, MsgContextInvalidated}

\* sendMessageWithRetry: chrome.runtime.sendMessage({type: "SAVE_TOS",
\* tabId: currentTabId}) of the current attempt; the listener calls
\* handleSaveRequest, which runs up to its first await.
SaveClickSend ==
    /\ retryPc = "send"
    /\ attempt < maxRetries
    /\ (attempt + 1) \in SaveRequests
    /\ saveReq[attempt + 1].pc = "idle"
    /\ saveReq' = [saveReq EXCEPT ![attempt + 1].pc = "getTos",
                                  ![attempt + 1].tab = "t1"]
    /\ retryPc' = "await"
    /\ UNCHANGED <<caller, attempt, channelLog, waits, retryResult, storedTos,
                   saved_tos_list>>
    /\ ClickFrame

\* The response of the handler reaches the callback of the popup:
\* resolve(response) and return response.
SaveClickResponse ==
    /\ retryPc = "await"
    /\ saveReq[attempt + 1].pc = "done"
    /\ channelLog' = Append(channelLog, <<"ok", saveReq[attempt + 1].response>>)
    /\ retryResult' = [kind |-> "success",
                       value |-> <<saveReq[attempt + 1].response>>]
    /\ retryPc' = "done"
    /\ UNCHANGED <<caller, attempt, waits, saveVars>>
    /\ ClickFrame

\* The host restarts or closes the message channel before a response is
\* delivered: the callback runs with chrome.runtime.lastError, and the
\* catch block of sendMessageWithRetry decides.
SaveClickChannelCloses ==
    /\ retryPc = "await"
    /\ \E m \in ChannelClosedMessages :
          /\ channelLog' = Append(channelLog, <<"error", m>>)
          /\ IF isServiceWorkerError(m) /\ ~isLastAttempt(attempt)
             THEN /\ waits' = Append(waits, backoffDelay(attempt))
                  /\ retryPc' = "wait"
                  /\ UNCHANGED retryResult
             ELSE /\ retryResult' = [kind |-> "failure", value |-> m]
                  /\ retryPc' = "done"
                  /\ UNCHANGED waits
    /\ UNCHANGED <<caller, attempt, saveVars>>
    /\ ClickFrame

\* The user clicks Save once in the popup of tab t1.
SaveClickInit ==
    /\ caller = "popup"
    /\ retryPc = "send"
    /\ attempt = 0
    /\ channelLog = <<>>
    /\ waits = <<>>
    /\ retryResult = NoRetryResult
    /\ storedTos \in [Tabs -> BOOLEAN]
    /\ saved_tos_list \in {<<>>, <<savedEntry(0, "t1")>>}
    /\ saveReq = [r \in SaveRequests |-> NoSave]
    /\ SumIdle
    /\ PageIdle
    /\ FlightIdle
    /\ LinkIdle
    /\ VerifyIdle
    /\ BgIdle

SaveClickNext ==
    \/ SaveClickSend
    \/ SaveClickResponse
    \/ SaveClickChannelCloses
    \/ RetryTimer
    \/ \E r \in SaveRequests :
          \/ SaveTosRead(r)
          \/ SaveListRead(r)
          \/ SaveSet(r)
          \/ SaveStorageRejects(r)

SaveClickSpec == SaveClickInit /\ [][SaveClickNext]_vars

(***************************************************************************)
(* Claims about one Save action                                            *)
(***************************************************************************)

\* C31: one user Save action appends at most one entry to saved_tos_list,
\* also when the channel is closed after the request was handled and
\* sendMessageWithRetry sends SAVE_TOS again.
C31_OneEntryPerSave ==
    Cardinality({i \in 1..Len(saved_tos_list) :
                    saved_tos_list[i].savedBy \in SaveRequests}) <= 1

(***************************************************************************)
(* Claims about an element that is shown again                             *)
(***************************************************************************)

\* This step is a run of the MutationObserver callback.
ObserverRuns ==
    /\ mutationQueue # <<>>
    /\ mutationQueue' = <<>> \/ mutationQueue'[1].by = "extension"

\* The element satisfies the detection predicate as the page is now.
SatisfiesPredicate(e) ==
    /\ ~shouldExcludeElement(e, fabButton)
    /\ isElementVisible(e, fabButton)
    /\ hasKeyword(e, fabButton)
    /\ isModalLike(e) \/ hasEnoughText(e, fabButton)

\* C35: an element that was detected, then hidden (nothing is tracked,
\* the button is gone) and is made visible again while it satisfies the
\* detection predicate is detected again: when the observer has handled
\* the style change, it is the tracked element and the button is shown.
C35_DetectedAgain ==
    [][\A e \in StyledElems :
          (/\ ObserverRuns
           /\ mutationQueue = <<[type |-> "attr", node |-> e, by |-> "page"]>>
           /\ e \in Range(detectedElements)
           /\ currentTosElement = "null"
           /\ SatisfiesPredicate(e))
             => /\ currentTosElement' = e
                /\ fabButton' = "attached"]_vars

(***************************************************************************)
(* Elements the extension injects                                          *)
(***************************************************************************)

\* C36 (as stated): the elements the extension injects itself, the explain
\* button and the result overlay of showResult, are never added to
\* detectedElements and never become the tracked element.
C36_OwnElementsNeverDetected ==
    /\ Range(detectedElements) \cap {"fab", "result"} = {}
    /\ currentTosElement \notin {"fab", "result"}

(***************************************************************************)
(* The session and the poll timer of summarizeLocally                      *)
(***************************************************************************)

\* C37 (as stated): when summarizeLocally has returned, with a summary or
\* after a failed model call, on the ready path and on the download path,
\* a session it created has been destroyed and the poll timer of the
\* download has been cleared.
C37_SessionDestroyed ==
    (sumPc \in {"done", "error"} /\ summarizer # "none")
        => /\ summarizer = "destroyed"
           /\ progressCheckInterval # "set"

(***************************************************************************)
(* The button and the tracked element                                      *)
(***************************************************************************)

\* C38: while the page leaves the explain button alone, the button is in
\* the document if and only if an element is tracked (currentTosElement
\* is not null): handleTosDetection sets both and hideFab clears both.
C38_FabIffTracked ==
    (fabButton = "attached") <=> (currentTosElement # "null")

\* An element was detected, and hideFab has since removed the button and
\* cleared the tracked element.
C38_Witness ==
    /\ detectedElements # <<>>
    /\ mutationQueue = <<>>
    /\ fabButton = "null"
    /\ currentTosElement = "null"

====
